---- MODULE Spec2Model ----
(***************************************************************************)
(* The request admission control layer of in2qr                            *)
(* (src/src/lib/ddosProtection.ts): blacklist lookup, burst guard, window  *)
(* counters, violation tracking and auto-blacklisting.                     *)
(*                                                                         *)
(* Time is in milliseconds, as Date.now() gives it.  The three tables of   *)
(* the durable store are request_logs and ip_blacklist, bags of rows, and  *)
(* security_events, which the layer only appends to: the rows a call has   *)
(* appended are the field `wrote` of the call.                             *)
(* A call of an async function is a slot of `calls`; one                   *)
(* action runs the code from one awaited store call to the next, which is  *)
(* where the JavaScript event loop can interleave anything else.  A store  *)
(* call ends in one of three ways: "ok", "error" (the client returns       *)
(* {data: null, count: null, error}) or "throw" (the awaited promise       *)
(* rejects).                                                               *)
(***************************************************************************)
EXTENDS Integers, Sequences, FiniteSets, Bags, TLC

VARIABLES
    now,              \* Date.now()
    requestCache,     \* Map<string, number[]>      (line 44)
    blacklistCache,   \* Set<string>                (line 45)
    violationCache,   \* Map<string, number>        (line 46)
    lastCleanup,      \* let lastCleanup            (line 47)
    request_logs,     \* table request_logs
    ip_blacklist,     \* table ip_blacklist
    calls,            \* the calls in flight and the last result of each slot
    sessionStorage,   \* the item ddos_session_id of sessionStorage ("" when not set)
    issued,           \* history: the admit() calls of each identity in the last second
    ticks,            \* how many times the clock has advanced
    qr_codes,         \* table qr_codes: scan_count and is_active of each short code
    scans,            \* the scans in flight and the last result of each browser
    scanned,          \* history: the scans of each short code that have completed
    monitoring_metrics, \* table monitoring_metrics
    dashboard,        \* the summary and the alerts the monitoring dashboard shows
    limiter           \* the checkRateLimit() call in flight and its last result

vars == <<now, requestCache, blacklistCache, violationCache, lastCleanup,
          request_logs, ip_blacklist, calls, sessionStorage, issued, ticks,
          qr_codes, scans, scanned, monitoring_metrics, dashboard, limiter>>

mem == <<requestCache, blacklistCache, violationCache, lastCleanup>>
store == <<request_logs, ip_blacklist>>
services == <<qr_codes, scans, scanned, monitoring_metrics, dashboard, limiter>>

----------------------------------------------------------------------------
(* Bounds of the model *)

MaxTicks == 2
MaxRows == 2
MaxBans == 1
MaxViolations == 3
MaxIssued == 4
MaxScans == 3
MaxMetrics == 3

Ids == {"a"}
Endpoints == {"/api/create-qr"}
Slots == {1}
Outcomes == {"ok", "error", "throw"}
Deltas == {100, 60000, 3600000}

----------------------------------------------------------------------------
(* Configuration *)

defaultDDoSConfig ==
    [ maxRequestsPerMinute   |-> 60,
      maxRequestsPerHour     |-> 500,
      maxRequestsPerDay      |-> 2000,
      maxIPRequestsPerMinute |-> 20,
      maxIPRequestsPerHour   |-> 100,
      minRequestInterval     |-> 100,
      maxBurstRequests       |-> 10,
      blacklistDuration      |-> 24 * 60 * 60 * 1000,
      autoBlacklistThreshold |-> 50 ]

\* A caller-supplied DDoSConfig (the second parameter of checkDDoSProtection):
\* tight window caps, a threshold of 3 violations and a ban of one hour.
customConfig ==
    [ maxRequestsPerMinute   |-> 2,
      maxRequestsPerHour     |-> 2,
      maxRequestsPerDay      |-> 2,
      maxIPRequestsPerMinute |-> 1,
      maxIPRequestsPerHour   |-> 1,
      minRequestInterval     |-> 100,
      maxBurstRequests       |-> 3,
      blacklistDuration      |-> 60 * 60 * 1000,
      autoBlacklistThreshold |-> 3 ]

Configs == {defaultDDoSConfig, customConfig}

----------------------------------------------------------------------------
(* Rows and results *)

NoText == [text |-> "", n |-> 0]
Text(s) == [text |-> s, n |-> 0]

EventRow(clientId, eventType, violationType, violationCount, details) ==
    [ client_id       |-> clientId,
      event_type      |-> eventType,
      violation_type  |-> violationType,
      violation_count |-> violationCount,
      details         |-> details ]

LogRow(clientId, endpoint, t) ==
    [ip_address |-> clientId, endpoint |-> endpoint, timestamp |-> t]

BanRow(clientId, reason, expiresAt) ==
    [client_id |-> clientId, reason |-> reason, expires_at |-> expiresAt]

Insert(table, row) == table (+) SetToBag({row})

\* select('*', {count: 'exact', head: true}).eq('ip_address', id).gte('timestamp', since)
CountSince(table, clientId, since) ==
    LET hit == {r \in DOMAIN table : r.ip_address = clientId /\ r.timestamp >= since}
    IN  BagCardinality([r \in hit |-> table[r]])

\* .eq('client_id', id).gt('expires_at', t): the rows the filter keeps
ActiveBans(table, clientId, t) ==
    LET hit == {r \in DOMAIN table : r.client_id = clientId /\ r.expires_at > t}
    IN  [r \in hit |-> table[r]]

\* .delete().eq('client_id', id)
DeleteBans(table, clientId) ==
    LET keep == {r \in DOMAIN table : r.client_id # clientId}
    IN  [r \in keep |-> table[r]]

Idle ==
    [ op |-> "none", pc |-> "idle", id |-> "", endpoint |-> "", cfg |-> defaultDDoSConfig,
      fnow |-> 0, minuteCount |-> 0, violations |-> 0, violationType |-> "",
      reason |-> NoText, expiresAt |-> 0,
      trace |-> <<>>, result |-> "none", kind |-> "", remaining |-> -1, resetTime |-> -1,
      burst |-> "", wrote |-> <<>>, caught |-> FALSE ]

----------------------------------------------------------------------------
(* Pure functions of the module *)

\* A burst window that keeps the timestamp one full second old.
RecentInclusive(requests, t) == SelectSeq(requests, LAMBDA ts : t - ts <= 1000)

\* requests.filter((timestamp) => now - timestamp < 1000)
Recent(requests, t) == SelectSeq(requests, LAMBDA ts : t - ts < 1000)

\* checkBurstPattern with the ceiling compared by > instead of >=.
checkBurstPatternOffByOne(cache, clientId, config, t) ==
    LET recentRequests == Recent(cache[clientId], t)
        n == Len(recentRequests)
    IN  IF n > config.maxBurstRequests
        THEN [allowed |-> FALSE, reason |-> "burst-count", cache |-> cache]
        ELSE IF n > 0 /\ t - recentRequests[n] < config.minRequestInterval
        THEN [allowed |-> FALSE, reason |-> "burst-interval", cache |-> cache]
        ELSE [allowed |-> TRUE, reason |-> "pass",
              cache |-> [cache EXCEPT ![clientId] = Append(recentRequests, t)]]

\* checkBurstPattern without the minimum interval.
checkBurstPatternNoInterval(cache, clientId, config, t) ==
    LET recentRequests == Recent(cache[clientId], t)
        n == Len(recentRequests)
    IN  IF n >= config.maxBurstRequests
        THEN [allowed |-> FALSE, reason |-> "burst-count", cache |-> cache]
        ELSE [allowed |-> TRUE, reason |-> "pass",
              cache |-> [cache EXCEPT ![clientId] = Append(recentRequests, t)]]

\* checkBurstPattern that stores the time of a denied request too.
checkBurstPatternStoresDenied(cache, clientId, config, t) ==
    LET recentRequests == Recent(cache[clientId], t)
        n == Len(recentRequests)
        stored == [cache EXCEPT ![clientId] = Append(recentRequests, t)]
    IN  IF n >= config.maxBurstRequests
        THEN [allowed |-> FALSE, reason |-> "burst-count", cache |-> stored]
        ELSE IF n > 0 /\ t - recentRequests[n] < config.minRequestInterval
        THEN [allowed |-> FALSE, reason |-> "burst-interval", cache |-> stored]
        ELSE [allowed |-> TRUE, reason |-> "pass", cache |-> stored]

\* checkBurstPattern that stores the new timestamp alone and loses the others.
checkBurstPatternOverwrites(cache, clientId, config, t) ==
    LET recentRequests == Recent(cache[clientId], t)
        n == Len(recentRequests)
    IN  IF n >= config.maxBurstRequests
        THEN [allowed |-> FALSE, reason |-> "burst-count", cache |-> cache]
        ELSE IF n > 0 /\ t - recentRequests[n] < config.minRequestInterval
        THEN [allowed |-> FALSE, reason |-> "burst-interval", cache |-> cache]
        ELSE [allowed |-> TRUE, reason |-> "pass",
              cache |-> [cache EXCEPT ![clientId] = <<t>>]]

\* checkBurstPattern: the decision and the requestCache it leaves.
checkBurstPattern(cache, clientId, config, t) ==
    LET recentRequests == Recent(cache[clientId], t)
        n == Len(recentRequests)
    IN  IF n >= config.maxBurstRequests
        THEN [allowed |-> FALSE, reason |-> "burst-count", cache |-> cache]
        ELSE IF n > 0 /\ t - recentRequests[n] < config.minRequestInterval
        THEN [allowed |-> FALSE, reason |-> "burst-interval", cache |-> cache]
        ELSE [allowed |-> TRUE, reason |-> "pass",
              cache |-> [cache EXCEPT ![clientId] = Append(recentRequests, t)]]

\* A sweep that empties the request cache.
cleanupRequestsAll(cache, t) == [i \in DOMAIN cache |-> <<>>]

\* cleanupCache, the request cache part: timestamps of the last five minutes stay.
cleanupRequests(cache, t) ==
    [i \in DOMAIN cache |-> SelectSeq(cache[i], LAMBDA ts : ts > t - 5 * 60 * 1000)]

\* A sweep that leaves the violation counts alone.
cleanupViolationsKeeps(cache) == cache

\* cleanupCache, the violation cache part: every entry is deleted.
cleanupViolations(cache) == [i \in DOMAIN cache |-> 0]

\* if (now - lastCleanup > 5 * 60 * 1000)
SweepDue(t, last) == t - last > 5 * 60 * 1000

\* recordViolation that logs the count it read, not the count it wrote.
recordViolationStale(c, cache, violationType) ==
    [c EXCEPT !.pc = "viol_insert",
              !.violations = cache[c.id],
              !.violationType = violationType]

\* recordViolation up to its first await: the new count, kept in the call.
recordViolation(c, cache, violationType) ==
    [c EXCEPT !.pc = "viol_insert",
              !.violations = cache[c.id] + 1,
              !.violationType = violationType]

\* if (violations >= defaultDDoSConfig.autoBlacklistThreshold)
AtThreshold(violations) == violations >= defaultDDoSConfig.autoBlacklistThreshold

\* duration: number = defaultDDoSConfig.blacklistDuration, the default recordViolation
\* leaves to blacklistIP
DefaultDuration == defaultDDoSConfig.blacklistDuration

\* The function returns: its locals are gone, the result stays with the caller.
Return(c) ==
    [c EXCEPT !.pc = "done", !.fnow = 0, !.minuteCount = 0, !.violations = 0,
              !.violationType = "", !.reason = NoText, !.expiresAt = 0]

\* A catch block that fails closed.
CatchDenies(c) ==
    [c EXCEPT !.pc = "done", !.fnow = 0, !.minuteCount = 0, !.violations = 0,
              !.violationType = "", !.reason = NoText, !.expiresAt = 0,
              !.result = "DENY", !.caught = TRUE]

\* A catch block that throws the error on to the caller.
CatchRethrows(c) == [Return(c) EXCEPT !.result = "THROWN", !.caught = TRUE]

\* The catch block of checkDDoSProtection: fail open.
Catch(c) ==
    [Return(c) EXCEPT !.result = "ALLOW", !.kind = "", !.remaining = -1,
                      !.resetTime = -1, !.caught = TRUE]

\* A rejected promise of an exported operation that has no try/catch.
Reject(c) == [Return(c) EXCEPT !.result = "THROWN"]

Done(c, result) == [Return(c) EXCEPT !.result = result]

Room(table, max) == BagCardinality(table) < max

\* The rows of request_logs the model follows for one identity.
RoomFor(table, clientId, max) == CountSince(table, clientId, 0) < max

\* The violation counts the model follows: the first MaxViolations from zero, and
\* as many from two below the threshold of recordViolation.
NearThreshold == defaultDDoSConfig.autoBlacklistThreshold - 2

Countable(n) ==
    \/ n < MaxViolations
    \/ n >= NearThreshold /\ n < NearThreshold + MaxViolations

Free(s) == calls[s].pc \in {"idle", "done"}

\* A count query whose error is read as a count beyond every limit.
CountedFailClosed(out, table, clientId, since) ==
    IF out = "ok" THEN CountSince(table, clientId, since) ELSE 1000000

\* (count || 0) of a count query that returned
Counted(out, table, clientId, since) ==
    IF out = "ok" THEN CountSince(table, clientId, since) ELSE 0

\* A limit that is reached only by a count above it.
ExceedsStrictly(count, limit) == count > limit

\* if ((count || 0) >= limit)
Exceeds(count, limit) == count >= limit

\* A cache lookup that never hits.
InCacheNever(cache, clientId) == FALSE

\* if (blacklistCache.has(clientId))
InCache(cache, clientId) == clientId \in cache

\* .single(): data is the row when the filter keeps exactly one row
Single(rows) == BagCardinality(rows) = 1

----------------------------------------------------------------------------
(* The history of admit() calls *)

Within(h, t) == SelectSeq(h, LAMBDA e : t - e.t < 1000)

LastOf(h, n) == IF Len(h) <= n THEN h ELSE SubSeq(h, Len(h) - n + 1, Len(h))

Issue(h, s, t, config) ==
    LastOf(Append(Within(h, t),
                  [t |-> t, k |-> config.maxBurstRequests, passed |-> FALSE, slot |-> s]),
           MaxIssued)

\* The call of slot s passed the burst guard.
Passed(h, s) ==
    LET own == {j \in 1..Len(h) : h[j].slot = s}
        last == CHOOSE j \in own : \A k \in own : k <= j
    IN  IF own = {} THEN h ELSE [h EXCEPT ![last].passed = TRUE]

----------------------------------------------------------------------------
(* checkDDoSProtection *)

\* Lines 57-71 and 112-129: the identity is resolved, the sweep runs when due, the
\* blacklist cache is looked up and either the block is logged or the table is queried.
AdmitCall(s, clientId, endpoint, config) ==
    /\ Free(s)
    /\ Countable(violationCache[clientId])
    /\ LET sweep == SweepDue(now, lastCleanup)
           c == [Idle EXCEPT !.op = "admit", !.id = clientId, !.endpoint = endpoint,
                             !.cfg = config, !.trace = <<"BLACKLIST_CHECK">>,
                             !.fnow = now]
       IN  /\ requestCache' = IF sweep THEN cleanupRequests(requestCache, now)
                              ELSE requestCache
           /\ violationCache' = IF sweep THEN cleanupViolations(violationCache)
                                ELSE violationCache
           /\ lastCleanup' = IF sweep THEN now ELSE lastCleanup
           /\ calls' = [calls EXCEPT ![s] =
                  IF InCache(blacklistCache, clientId)
                  THEN [c EXCEPT !.pc = "log_block", !.kind = "blacklist"]
                  ELSE [c EXCEPT !.pc = "bl_query"]]
    /\ UNCHANGED <<now, sessionStorage, services, blacklistCache, store, ticks>>

\* Lines 56-57, 102-106 and 395-416: getClientIdentifier() throws out of its own
\* catch block (sessionStorage is not available); nothing of the call has run
\* and the configuration has not been read.
IdentityFailed(s, endpoint) ==
    /\ Free(s)
    /\ calls' = [calls EXCEPT ![s] =
           Catch([Idle EXCEPT !.op = "admit", !.endpoint = endpoint])]
    /\ UNCHANGED <<now, sessionStorage, services, mem, store, issued, ticks>>

\* admit(), not followed in the history.
AdmitBegin(s, clientId, endpoint, config) ==
    /\ AdmitCall(s, clientId, endpoint, config)
    /\ UNCHANGED issued

\* admit(), followed in the history.
AdmitCounted(s, clientId, endpoint, config) ==
    /\ AdmitCall(s, clientId, endpoint, config)
    /\ issued' = [issued EXCEPT ![clientId] = Issue(@, s, now, config)]

\* The call once the burst check has passed: checkRateLimits reads the clock and
\* issues its per-minute query (lines 80-81, 197-205).
BurstPassed(c, t) ==
    [c EXCEPT !.pc = "q_minute", !.fnow = t, !.burst = "pass",
              !.trace = Append(@, "GLOBAL_MINUTE")]

\* Lines 131-143 and 73-81, 197-205: the blacklist query returns; when the identity is
\* not found the burst check runs and then a violation is recorded or the first
\* count query is issued.
BlacklistReturn(s, out) ==
    /\ calls[s].pc = "bl_query"
    /\ LET c == calls[s]
           data == ActiveBans(ip_blacklist, c.id, c.fnow)
           found == out = "ok" /\ Single(data)
           burst == checkBurstPattern(requestCache, c.id, c.cfg, now)
           c1 == [c EXCEPT !.trace = Append(@, "BURST_CHECK")]
       IN  IF found
           THEN /\ blacklistCache' = blacklistCache \cup {c.id}
                /\ calls' = [calls EXCEPT ![s] =
                       [c EXCEPT !.pc = "log_block", !.kind = "blacklist"]]
                /\ UNCHANGED <<requestCache, violationCache, issued>>
           ELSE IF ~burst.allowed
           THEN /\ violationCache' = [violationCache EXCEPT ![c.id] = @ + 1]
                /\ calls' = [calls EXCEPT ![s] =
                       recordViolation([c1 EXCEPT !.kind = "burst", !.burst = burst.reason],
                                       violationCache, "burst_detected")]
                /\ requestCache' = burst.cache
                /\ UNCHANGED <<blacklistCache, issued>>
           ELSE /\ requestCache' = burst.cache
                /\ calls' = [calls EXCEPT ![s] = BurstPassed(c1, now)]
                /\ issued' = [issued EXCEPT ![c.id] = Passed(@, s)]
                /\ UNCHANGED <<violationCache, blacklistCache>>
    /\ UNCHANGED <<now, sessionStorage, services, lastCleanup, store, ticks>>

\* Lines 69-70 and 359-373: the blacklist_block event is logged (a failure is
\* swallowed) and the blacklist result is returned.
BlockLogged(s, out) ==
    /\ calls[s].pc = "log_block"
    /\ LET c == calls[s]
           row == EventRow(c.id, "blacklist_block", "", 0, Text(c.endpoint))
       IN  calls' = [calls EXCEPT ![s] =
               Done([c EXCEPT !.wrote = IF out = "ok" THEN Append(@, row) ELSE @],
                    "DENY")]
    /\ UNCHANGED <<now, sessionStorage, services, mem, store, issued, ticks>>

\* A denial that counts a violation against every identity.
WindowReturnCountsAll(s, out, over, denied, violationType, passed) ==
    /\ LET c == calls[s]
       IN  IF out = "throw"
           THEN calls' = [calls EXCEPT ![s] = Catch(c)] /\ UNCHANGED violationCache
           ELSE IF over
           THEN /\ violationCache' = [i \in DOMAIN violationCache |->
                                         violationCache[i] + 1]
                /\ calls' = [calls EXCEPT ![s] =
                       recordViolation([c EXCEPT !.kind = denied.kind,
                                                 !.remaining = denied.remaining,
                                                 !.resetTime = denied.resetTime],
                                       violationCache, violationType)]
           ELSE /\ calls' = [calls EXCEPT ![s] = passed]
                /\ UNCHANGED violationCache
    /\ UNCHANGED <<now, sessionStorage, services, requestCache, blacklistCache, lastCleanup, store,
                   issued, ticks>>

\* A denial or a throw that takes the timestamp of the request back out of
\* the burst list.
WindowReturnForgets(s, out, over, denied, violationType, passed) ==
    /\ LET c == calls[s]
           list == requestCache[c.id]
           forgotten == [requestCache EXCEPT ![c.id] = SubSeq(list, 1, Len(list) - 1)]
       IN  IF out = "throw"
           THEN /\ calls' = [calls EXCEPT ![s] = Catch(c)]
                /\ requestCache' = forgotten
                /\ UNCHANGED violationCache
           ELSE IF over
           THEN /\ violationCache' = [violationCache EXCEPT ![c.id] = @ + 1]
                /\ requestCache' = forgotten
                /\ calls' = [calls EXCEPT ![s] =
                       recordViolation([c EXCEPT !.kind = denied.kind,
                                                 !.remaining = denied.remaining,
                                                 !.resetTime = denied.resetTime],
                                       violationCache, violationType)]
           ELSE /\ calls' = [calls EXCEPT ![s] = passed]
                /\ UNCHANGED <<violationCache, requestCache>>
    /\ UNCHANGED <<now, sessionStorage, services, blacklistCache, lastCleanup, store,
                   issued, ticks>>

\* One awaited count query of checkRateLimits or checkIPLimits returns: a throw
\* reaches the catch block, a count at the limit records a violation, anything
\* else goes on to the next query.
WindowReturn(s, out, over, denied, violationType, passed) ==
    /\ LET c == calls[s]
       IN  IF out = "throw"
           THEN calls' = [calls EXCEPT ![s] = Catch(c)] /\ UNCHANGED violationCache
           ELSE IF over
           THEN /\ violationCache' = [violationCache EXCEPT ![c.id] = @ + 1]
                /\ calls' = [calls EXCEPT ![s] =
                       recordViolation([c EXCEPT !.kind = denied.kind,
                                                 !.remaining = denied.remaining,
                                                 !.resetTime = denied.resetTime],
                                       violationCache, violationType)]
           ELSE /\ calls' = [calls EXCEPT ![s] = passed]
                /\ UNCHANGED violationCache
    /\ UNCHANGED <<now, sessionStorage, services, requestCache, blacklistCache, lastCleanup, store,
                   issued, ticks>>

\* What a denial of checkRateLimits returns, and what a denial of checkIPLimits does.
RateDenied(kind, t) == [kind |-> kind, remaining |-> 0, resetTime |-> t]
IPDenied(kind) == [kind |-> kind, remaining |-> -1, resetTime |-> -1]

\* The per-hour query left out after the per-minute one.
MinutePassedSkipsHour(c, minuteCount) ==
    [c EXCEPT !.pc = "q_day", !.minuteCount = minuteCount,
              !.trace = Append(@, "GLOBAL_DAY")]

MinutePassed(c, minuteCount) ==
    [c EXCEPT !.pc = "q_hour", !.minuteCount = minuteCount,
              !.trace = Append(@, "GLOBAL_HOUR")]

HourPassed(c) == [c EXCEPT !.pc = "q_day", !.trace = Append(@, "GLOBAL_DAY")]

\* checkRateLimits that counts the request itself among the used ones.
DayPassedCountsItself(c, t) ==
    [c EXCEPT !.pc = "q_ipmin",
              !.remaining = c.cfg.maxRequestsPerMinute - c.minuteCount - 1,
              !.resetTime = c.fnow + 60 * 1000,
              !.fnow = t,
              !.trace = Append(@, "IDENTITY_MINUTE")]

\* checkRateLimits returns its metadata; checkIPLimits reads the clock (lines 250-254,
\* 264-272).
DayPassed(c, t) ==
    [c EXCEPT !.pc = "q_ipmin",
              !.remaining = c.cfg.maxRequestsPerMinute - c.minuteCount,
              !.resetTime = c.fnow + 60 * 1000,
              !.fnow = t,
              !.trace = Append(@, "IDENTITY_MINUTE")]

IPMinutePassed(c) == [c EXCEPT !.pc = "q_iphour", !.trace = Append(@, "IDENTITY_HOUR")]

\* logRequest takes its timestamp (line 385) and issues the insert.
IPHourPassed(c, t) == [c EXCEPT !.pc = "log_request", !.fnow = t]

\* Lines 201-214 (and 82-84): the per-minute count returns.
MinuteReturn(s, out) ==
    /\ calls[s].pc = "q_minute"
    /\ LET c == calls[s]
           minuteCount == Counted(out, request_logs, c.id, c.fnow - 60 * 1000)
       IN  WindowReturn(s, out,
                        Exceeds(minuteCount, c.cfg.maxRequestsPerMinute),
                        RateDenied("rate-limit-minute", c.fnow + 60 * 1000),
                        "rate_limit_exceeded", MinutePassed(c, minuteCount))

\* The per-hour denial recorded under a type of its own.
HourReturnOwnType(s, out) ==
    /\ calls[s].pc = "q_hour"
    /\ LET c == calls[s]
           hourCount == Counted(out, request_logs, c.id, c.fnow - 60 * 60 * 1000)
       IN  WindowReturn(s, out,
                        Exceeds(hourCount, c.cfg.maxRequestsPerHour),
                        RateDenied("rate-limit-hour", c.fnow + 60 * 60 * 1000),
                        "rate_limit_hour_exceeded", HourPassed(c))

\* Lines 216-231 (and 82-84): the per-hour count returns.
HourReturn(s, out) ==
    /\ calls[s].pc = "q_hour"
    /\ LET c == calls[s]
           hourCount == Counted(out, request_logs, c.id, c.fnow - 60 * 60 * 1000)
       IN  WindowReturn(s, out,
                        Exceeds(hourCount, c.cfg.maxRequestsPerHour),
                        RateDenied("rate-limit-hour", c.fnow + 60 * 60 * 1000),
                        "rate_limit_exceeded", HourPassed(c))

\* Lines 233-255, 82-88 and 264-272: the per-day count returns; when it passes,
\* checkRateLimits returns and checkIPLimits issues its first query.
DayReturn(s, out) ==
    /\ calls[s].pc = "q_day"
    /\ LET c == calls[s]
           dayCount == Counted(out, request_logs, c.id, c.fnow - 24 * 60 * 60 * 1000)
       IN  WindowReturn(s, out,
                        Exceeds(dayCount, c.cfg.maxRequestsPerDay),
                        RateDenied("rate-limit-day", c.fnow + 24 * 60 * 60 * 1000),
                        "rate_limit_exceeded", DayPassed(c, now))

\* Lines 274-287 (and 89-91): the per-minute count of checkIPLimits returns.
IPMinuteReturn(s, out) ==
    /\ calls[s].pc = "q_ipmin"
    /\ LET c == calls[s]
           ipMinuteCount == Counted(out, request_logs, c.id, c.fnow - 60 * 1000)
       IN  WindowReturn(s, out,
                        Exceeds(ipMinuteCount, c.cfg.maxIPRequestsPerMinute),
                        IPDenied("ip-limit-minute"),
                        "ip_limit_exceeded", IPMinutePassed(c))

\* Lines 289-297, 89-95 and 378-386: the per-hour count of checkIPLimits returns;
\* when it passes, logRequest issues its insert.
IPHourReturn(s, out) ==
    /\ calls[s].pc = "q_iphour"
    /\ LET c == calls[s]
           ipHourCount == Counted(out, request_logs, c.id, c.fnow - 60 * 60 * 1000)
       IN  WindowReturn(s, out,
                        Exceeds(ipHourCount, c.cfg.maxIPRequestsPerHour),
                        IPDenied("ip-limit-hour"),
                        "ip_limit_exceeded", IPHourPassed(c, now))

\* logRequest that inserts its row twice.
RequestLoggedTwice(s, out) ==
    /\ calls[s].pc = "log_request"
    /\ LET c == calls[s]
       IN  /\ request_logs' = IF out = "ok"
                              THEN Insert(Insert(request_logs,
                                                 LogRow(c.id, c.endpoint, c.fnow)),
                                          LogRow(c.id, c.endpoint, c.fnow))
                              ELSE request_logs
           /\ calls' = [calls EXCEPT ![s] = Done(c, "ALLOW")]
    /\ UNCHANGED <<now, sessionStorage, services, mem, ip_blacklist, issued, ticks>>

\* logRequest that counts the rows of the last minute again and appends only
\* below the cap, in one step with the insert.
RequestLoggedAtomic(s, out) ==
    /\ calls[s].pc = "log_request"
    /\ LET c == calls[s]
           full == Exceeds(CountSince(request_logs, c.id, c.fnow - 60 * 1000),
                           c.cfg.maxIPRequestsPerMinute)
       IN  /\ request_logs' = IF out = "ok" /\ ~full
                              THEN Insert(request_logs, LogRow(c.id, c.endpoint, c.fnow))
                              ELSE request_logs
           /\ calls' = [calls EXCEPT ![s] = Done(c, IF full THEN "DENY" ELSE "ALLOW")]
    /\ UNCHANGED <<now, sessionStorage, services, mem, ip_blacklist, issued, ticks>>

\* logRequest whose failed insert sends the call back to its first count query.
RequestLoggedRetries(s, out) ==
    /\ calls[s].pc = "log_request"
    /\ out = "ok" => RoomFor(request_logs, calls[s].id, MaxRows)
    /\ LET c == calls[s]
       IN  /\ request_logs' = IF out = "ok"
                              THEN Insert(request_logs, LogRow(c.id, c.endpoint, c.fnow))
                              ELSE request_logs
           /\ calls' = [calls EXCEPT ![s] =
                  IF out = "ok" THEN Done(c, "ALLOW")
                  ELSE [c EXCEPT !.pc = "q_minute",
                                 !.trace = <<"BLACKLIST_CHECK", "BURST_CHECK",
                                             "GLOBAL_MINUTE">>]]
    /\ UNCHANGED <<now, sessionStorage, services, mem, ip_blacklist, issued, ticks>>

\* Lines 387-389 and 97-101: the insert of logRequest returns (a failure is
\* swallowed) and the request is allowed.
RequestLogged(s, out) ==
    /\ calls[s].pc = "log_request"
    /\ out = "ok" => RoomFor(request_logs, calls[s].id, MaxRows)
    /\ LET c == calls[s]
       IN  /\ request_logs' = IF out = "ok"
                              THEN Insert(request_logs, LogRow(c.id, c.endpoint, c.fnow))
                              ELSE request_logs
           /\ calls' = [calls EXCEPT ![s] = Done(c, "ALLOW")]
    /\ UNCHANGED <<now, sessionStorage, services, mem, ip_blacklist, issued, ticks>>

----------------------------------------------------------------------------
(* recordViolation, blacklistIP, unblacklistIP *)

\* Lines 307-318 and 328-334: the insert of the violation event returns; at the
\* threshold blacklistIP computes the expiry and issues its insert.
ViolationInserted(s, out) ==
    /\ calls[s].pc = "viol_insert"
    /\ LET c == calls[s]
           row == EventRow(c.id, "violation", c.violationType, c.violations, NoText)
           c1 == [c EXCEPT !.wrote = IF out = "ok" THEN Append(@, row) ELSE @]
       IN  calls' = [calls EXCEPT ![s] =
               IF out = "throw" THEN Catch(c)
               ELSE IF AtThreshold(c.violations)
               THEN [c1 EXCEPT !.pc = "bl_insert",
                               !.reason = [text |-> "Auto-blacklisted after",
                                           n |-> c.violations],
                               !.expiresAt = now + DefaultDuration]
               ELSE Done(c1, "DENY")]
    /\ UNCHANGED <<now, sessionStorage, services, mem, store, issued, ticks>>

\* Lines 323-328: an operator calls blacklistIP(clientId, reason, duration).
BlacklistIP(s, clientId, duration) ==
    /\ Free(s)
    /\ calls' = [calls EXCEPT ![s] =
           [Idle EXCEPT !.op = "ban", !.pc = "bl_insert", !.id = clientId,
                        !.reason = Text("manual"),
                        !.expiresAt = now + duration]]
    /\ UNCHANGED <<now, sessionStorage, services, mem, store, issued, ticks>>

\* Lines 330-338: the insert into ip_blacklist returns; the identity enters the
\* cache and the ip_blacklisted event is issued.
BlacklistInserted(s, out) ==
    /\ calls[s].pc = "bl_insert"
    /\ out = "ok" => Room(ip_blacklist, MaxBans)
    /\ LET c == calls[s]
       IN  IF out = "throw"
           THEN /\ calls' = [calls EXCEPT ![s] =
                       IF c.op = "admit" THEN Catch(c) ELSE Reject(c)]
                /\ UNCHANGED <<ip_blacklist, blacklistCache>>
           ELSE /\ ip_blacklist' = IF out = "ok"
                                   THEN Insert(ip_blacklist,
                                               BanRow(c.id, c.reason, c.expiresAt))
                                   ELSE ip_blacklist
                /\ blacklistCache' = blacklistCache \cup {c.id}
                /\ calls' = [calls EXCEPT ![s] = [c EXCEPT !.pc = "log_blacklisted"]]
    /\ UNCHANGED <<now, sessionStorage, services, requestCache, violationCache, lastCleanup,
                   request_logs, issued, ticks>>

\* Lines 338-339 and 359-373: the ip_blacklisted event is logged (a failure is
\* swallowed); blacklistIP returns, and with it recordViolation and the denial.
BlacklistLogged(s, out) ==
    /\ calls[s].pc = "log_blacklisted"
    /\ LET c == calls[s]
           row == EventRow(c.id, "ip_blacklisted", "", 0, c.reason)
           c1 == [c EXCEPT !.wrote = IF out = "ok" THEN Append(@, row) ELSE @]
       IN  calls' = [calls EXCEPT ![s] =
               Done(c1, IF c.op = "admit" THEN "DENY" ELSE "OK")]
    /\ UNCHANGED <<now, sessionStorage, services, mem, store, issued, ticks>>

\* Lines 344-348: an operator calls unblacklistIP(clientId).
UnblacklistIP(s, clientId) ==
    /\ Free(s)
    /\ calls' = [calls EXCEPT ![s] =
           [Idle EXCEPT !.op = "unban", !.pc = "unban_delete", !.id = clientId]]
    /\ UNCHANGED <<now, sessionStorage, services, mem, store, issued, ticks>>

\* unblacklistIP that leaves the violation counter alone.
UnbanDeletedKeepsCount(s, out) ==
    /\ calls[s].pc = "unban_delete"
    /\ LET c == calls[s]
       IN  IF out = "throw"
           THEN /\ calls' = [calls EXCEPT ![s] = Reject(c)]
                /\ UNCHANGED <<ip_blacklist, blacklistCache>>
           ELSE /\ ip_blacklist' = IF out = "ok" THEN DeleteBans(ip_blacklist, c.id)
                                   ELSE ip_blacklist
                /\ blacklistCache' = blacklistCache \ {c.id}
                /\ calls' = [calls EXCEPT ![s] = [c EXCEPT !.pc = "unban_log"]]
    /\ UNCHANGED <<now, sessionStorage, services, requestCache, violationCache, lastCleanup,
                   request_logs, issued, ticks>>

\* Lines 345-353: the delete returns; the identity leaves both caches and the
\* ip_unblacklisted event is issued.
UnbanDeleted(s, out) ==
    /\ calls[s].pc = "unban_delete"
    /\ LET c == calls[s]
       IN  IF out = "throw"
           THEN /\ calls' = [calls EXCEPT ![s] = Reject(c)]
                /\ UNCHANGED <<ip_blacklist, blacklistCache, violationCache>>
           ELSE /\ ip_blacklist' = IF out = "ok" THEN DeleteBans(ip_blacklist, c.id)
                                   ELSE ip_blacklist
                /\ blacklistCache' = blacklistCache \ {c.id}
                /\ violationCache' = [violationCache EXCEPT ![c.id] = 0]
                /\ calls' = [calls EXCEPT ![s] = [c EXCEPT !.pc = "unban_log"]]
    /\ UNCHANGED <<now, sessionStorage, services, requestCache, lastCleanup,
                   request_logs, issued, ticks>>

\* Lines 353-354 and 359-373: the ip_unblacklisted event is logged (a failure is
\* swallowed) and unblacklistIP returns.
UnbanLogged(s, out) ==
    /\ calls[s].pc = "unban_log"
    /\ LET c == calls[s]
           row == EventRow(c.id, "ip_unblacklisted", "", 0, Text("Manual unblock"))
           c1 == [c EXCEPT !.wrote = IF out = "ok" THEN Append(@, row) ELSE @]
       IN  calls' = [calls EXCEPT ![s] = Done(c1, "OK")]
    /\ UNCHANGED <<now, sessionStorage, services, mem, store, issued, ticks>>

----------------------------------------------------------------------------
(* The environment *)

\* Time passes between two operations: the requests of this model come one at a
\* time, and a request is short against the 100 ms the clock advances by.
Tick(d) ==
    /\ ticks < MaxTicks
    /\ \A s \in DOMAIN calls : Free(s)
    /\ now' = now + d
    /\ ticks' = ticks + 1
    /\ issued' = [i \in DOMAIN issued |-> Within(issued[i], now + d)]
    /\ UNCHANGED <<mem, store, calls, sessionStorage, services>>

\* Scan tracking, monitoring and the standalone rate limiter before anything
\* has used them: one QR code that was never scanned, no metric, no call.
ShortCodes == {"q1"}
ScanSlots == {1, 2}

IdleScan == [pc |-> "idle", via |-> "", code |-> "", read |-> 0, result |-> "none"]

\* The dashboard before its first refresh.
NoSummary ==
    [requestsPerMinute |-> 0, topIPs |-> <<>>, alerts |-> {}, maxSameIP |-> 0, at |-> -1]

IdleLimiter ==
    [pc |-> "idle", endpoint |-> "", maxRequests |-> 0, windowMs |-> 0,
     ipAddress |-> "", windowStart |-> 0, answered |-> "", count |-> 0,
     result |-> "none"]

ServicesIdle ==
    /\ qr_codes = [q \in ShortCodes |-> [scan_count |-> 0, is_active |-> TRUE]]
    /\ scans = [b \in ScanSlots |-> IdleScan]
    /\ scanned = [q \in ShortCodes |-> 0]
    /\ monitoring_metrics = EmptyBag
    /\ dashboard = NoSummary
    /\ limiter = IdleLimiter

Durations == {DefaultDuration}

Init ==
    /\ now = 0
    /\ requestCache = [i \in Ids |-> <<>>]
    /\ blacklistCache = {}
    /\ violationCache = [i \in Ids |-> 0]
    /\ lastCleanup = 0
    /\ request_logs = EmptyBag
    /\ ip_blacklist = EmptyBag
    /\ calls = [s \in Slots |-> Idle]
    /\ issued = [i \in Ids |-> <<>>]
    /\ ticks = 0
    /\ ServicesIdle
    /\ sessionStorage = ""

Admit ==
    \E s \in DOMAIN calls, i \in DOMAIN violationCache, e \in Endpoints, g \in Configs :
        AdmitBegin(s, i, e, g)
Unidentified == \E s \in DOMAIN calls, e \in Endpoints : IdentityFailed(s, e)
BlacklistQuery == \E s \in DOMAIN calls, out \in Outcomes : BlacklistReturn(s, out)
BlockLog == \E s \in DOMAIN calls, out \in Outcomes : BlockLogged(s, out)
MinuteQuery == \E s \in DOMAIN calls, out \in Outcomes : MinuteReturn(s, out)
HourQuery == \E s \in DOMAIN calls, out \in Outcomes : HourReturn(s, out)
DayQuery == \E s \in DOMAIN calls, out \in Outcomes : DayReturn(s, out)
IPMinuteQuery == \E s \in DOMAIN calls, out \in Outcomes : IPMinuteReturn(s, out)
IPHourQuery == \E s \in DOMAIN calls, out \in Outcomes : IPHourReturn(s, out)
RequestLog == \E s \in DOMAIN calls, out \in Outcomes : RequestLogged(s, out)
ViolationInsert == \E s \in DOMAIN calls, out \in Outcomes : ViolationInserted(s, out)
Ban ==
    \E s \in DOMAIN calls, i \in DOMAIN violationCache, d \in Durations :
        BlacklistIP(s, i, d)
BlacklistInsert == \E s \in DOMAIN calls, out \in Outcomes : BlacklistInserted(s, out)
BlacklistLog == \E s \in DOMAIN calls, out \in Outcomes : BlacklistLogged(s, out)
Unban == \E s \in DOMAIN calls, i \in DOMAIN violationCache : UnblacklistIP(s, i)
UnbanDelete == \E s \in DOMAIN calls, out \in Outcomes : UnbanDeleted(s, out)
UnbanLog == \E s \in DOMAIN calls, out \in Outcomes : UnbanLogged(s, out)
Clock == \E d \in Deltas : Tick(d)

Next ==
    \/ Admit
    \/ Unidentified
    \/ BlacklistQuery
    \/ BlockLog
    \/ MinuteQuery
    \/ HourQuery
    \/ DayQuery
    \/ IPMinuteQuery
    \/ IPHourQuery
    \/ RequestLog
    \/ ViolationInsert
    \/ Ban
    \/ BlacklistInsert
    \/ BlacklistLog
    \/ Unban
    \/ UnbanDelete
    \/ UnbanLog
    \/ Clock

CountedAdmit ==
    \E s \in DOMAIN calls, i \in DOMAIN violationCache, e \in Endpoints, g \in Configs :
        AdmitCounted(s, i, e, g)

\* Admission alone, every call followed in the history: nobody bans or unbans.
NextBurst ==
    \/ CountedAdmit
    \/ BlacklistQuery
    \/ MinuteQuery
    \/ HourQuery
    \/ DayQuery
    \/ IPMinuteQuery
    \/ IPHourQuery
    \/ RequestLog
    \/ ViolationInsert
    \/ Clock

SpecBurst == Init /\ [][NextBurst]_vars

Spec == Init /\ [][Next]_vars

\* The process after 48 burst denials in the millisecond of its first call: one
\* timestamp in the burst window, the first call not logged.
InitEscalate ==
    /\ now = 0
    /\ requestCache = [i \in Ids |-> <<0>>]
    /\ blacklistCache = {}
    /\ violationCache = [i \in Ids |-> NearThreshold]
    /\ lastCleanup = 0
    /\ request_logs = EmptyBag
    /\ ip_blacklist = EmptyBag
    /\ calls = [s \in Slots |-> Idle]
    /\ issued = [i \in Ids |-> <<>>]
    /\ ticks = 0
    /\ ServicesIdle
    /\ sessionStorage = ""

\* Admission with the bans it writes itself: no operator bans or unbans.
NextEscalate ==
    \/ Admit
    \/ Unidentified
    \/ BlacklistQuery
    \/ BlockLog
    \/ MinuteQuery
    \/ HourQuery
    \/ DayQuery
    \/ IPMinuteQuery
    \/ IPHourQuery
    \/ RequestLog
    \/ ViolationInsert
    \/ BlacklistInsert
    \/ BlacklistLog
    \/ Clock

SpecEscalate == InitEscalate /\ [][NextEscalate]_vars

\* What an earlier process, or another instance, has left in the tables.
OtherEndpoint == "/api/other"
OtherId == "b"

Twice(row) == Insert(Insert(EmptyBag, row), row)

ExpiringBan == Insert(EmptyBag, BanRow("a", Text("manual"), 60 * 60 * 1000))

TwoBans == Insert(ExpiringBan, BanRow("a", Text("manual"), DefaultDuration))

RestartStores ==
    { [bans |-> ExpiringBan, logs |-> EmptyBag],
      [bans |-> TwoBans, logs |-> EmptyBag],
      [bans |-> EmptyBag, logs |-> Twice(LogRow(OtherId, "/api/create-qr", 0))],
      [bans |-> EmptyBag, logs |-> Twice(LogRow("a", OtherEndpoint, 0))] }

\* A process that has just loaded the module over tables that are not empty.
InitRestart ==
    /\ now = 0
    /\ requestCache = [i \in Ids |-> <<>>]
    /\ blacklistCache = {}
    /\ violationCache = [i \in Ids |-> 0]
    /\ lastCleanup = 0
    /\ \E st \in RestartStores : request_logs = st.logs /\ ip_blacklist = st.bans
    /\ calls = [s \in Slots |-> Idle]
    /\ issued = [i \in Ids |-> <<>>]
    /\ ticks = 0
    /\ ServicesIdle
    /\ sessionStorage = ""

SpecRestart == InitRestart /\ [][Next]_vars

\* Two identities served by one process: the other one has made a request
\* that was allowed and logged and one that was denied on the interval.
PairIds == {"a", OtherId}

InitPair ==
    /\ now = 0
    /\ requestCache = [i \in PairIds |-> IF i = OtherId THEN <<0>> ELSE <<>>]
    /\ blacklistCache = {}
    /\ violationCache = [i \in PairIds |-> IF i = OtherId THEN 1 ELSE 0]
    /\ lastCleanup = 0
    /\ request_logs = Insert(EmptyBag, LogRow(OtherId, "/api/create-qr", 0))
    /\ ip_blacklist = EmptyBag
    /\ calls = [s \in Slots |-> Idle]
    /\ issued = [i \in PairIds |-> <<>>]
    /\ ticks = 0
    /\ ServicesIdle
    /\ sessionStorage = ""

AdmitOne ==
    \E s \in DOMAIN calls, i \in Ids, e \in Endpoints, g \in Configs :
        AdmitBegin(s, i, e, g)

\* Admission of the first identity alone: nobody bans or unbans.
NextAdmit ==
    \/ AdmitOne
    \/ Unidentified
    \/ BlacklistQuery
    \/ MinuteQuery
    \/ HourQuery
    \/ DayQuery
    \/ IPMinuteQuery
    \/ IPHourQuery
    \/ RequestLog
    \/ ViolationInsert
    \/ Clock

SpecPair == InitPair /\ [][NextAdmit]_vars

----------------------------------------------------------------------------
(* The order of the checks *)

CheckOrder ==
    <<"BLACKLIST_CHECK", "BURST_CHECK", "GLOBAL_MINUTE", "GLOBAL_HOUR", "GLOBAL_DAY",
      "IDENTITY_MINUTE", "IDENTITY_HOUR">>

CheckOf(kind) ==
    CASE kind = "blacklist" -> "BLACKLIST_CHECK"
      [] kind = "burst" -> "BURST_CHECK"
      [] kind = "rate-limit-minute" -> "GLOBAL_MINUTE"
      [] kind = "rate-limit-hour" -> "GLOBAL_HOUR"
      [] kind = "rate-limit-day" -> "GLOBAL_DAY"
      [] kind = "ip-limit-minute" -> "IDENTITY_MINUTE"
      [] kind = "ip-limit-hour" -> "IDENTITY_HOUR"
      [] OTHER -> "NONE"

IsPrefix(p, q) == Len(p) <= Len(q) /\ \A j \in 1..Len(p) : p[j] = q[j]

AdmitDone(s) == calls[s].op = "admit" /\ calls[s].pc = "done"

----------------------------------------------------------------------------
(* Banned identities *)

Begins(s) == Free(s) /\ calls'[s].op = "admit" /\ calls'[s].pc \notin {"idle", "done"}

Banned(clientId) == clientId \in blacklistCache

C3_BannedAtThreshold ==
    \A s \in DOMAIN calls :
        LET c == calls[s]
        IN  AdmitDone(s) /\ c.result = "DENY" /\ c.kind # "blacklist" =>
              (violationCache[c.id] >= c.cfg.autoBlacklistThreshold <=> Banned(c.id))

\* C4: with autoBlacklistThreshold 3 in effect the third violation writes a ban
\* that lasts the blacklistDuration of that configuration.
C4_ConfiguredBan ==
    \A s \in DOMAIN calls :
        LET c == calls[s]
        IN  /\ AdmitDone(s) /\ c.result = "DENY" /\ c.kind # "blacklist"
            /\ c.cfg.autoBlacklistThreshold = 3
            /\ violationCache[c.id] = 3
            => \E r \in DOMAIN ip_blacklist :
                  /\ r.client_id = c.id
                  /\ r.expires_at - c.cfg.blacklistDuration \in 0..now

----------------------------------------------------------------------------
(* The burst guard *)

\* The admit() call of slot s has been through checkBurstPattern.
AtBurst(s) == calls[s].op = "admit" /\ calls[s].burst # ""

DefaultBurst(c) == c.cfg.maxBurstRequests = 10 /\ c.cfg.minRequestInterval = 100

\* C6 as stated: with ceiling 10 and interval 100 every one of the first ten
\* calls an identity issues within 500 ms passes the burst guard.
C6_FirstTenPass ==
    \A s \in DOMAIN calls :
        LET c == calls[s]
            h == issued[c.id]
            n == Len(h)
        IN  /\ AtBurst(s) /\ DefaultBurst(c)
            /\ n \in 1..10 /\ n < MaxIssued
            /\ \A j \in 1..n : h[n].t - h[j].t <= 500
            => c.burst = "pass"

\* C6: with ceiling 10 and interval 100 the first call of an identity passes
\* the burst guard, and a later call within 500 ms passes exactly when it comes
\* at least 100 ms after every earlier call that passed; the others are
\* rejected on the interval, so calls 1 to 10 are not all allowed.
C6_SpacedCallsPass ==
    \A s \in DOMAIN calls :
        LET c == calls[s]
            h == issued[c.id]
            n == Len(h)
            spaced == \A j \in 1..(n - 1) : h[j].passed => h[n].t - h[j].t >= 100
        IN  /\ AtBurst(s) /\ DefaultBurst(c)
            /\ n \in 1..10 /\ n < MaxIssued
            /\ \A j \in 1..n : h[n].t - h[j].t <= 500
            => /\ c.burst = "pass" <=> spaced
               /\ c.burst # "pass" => c.burst = "burst-interval"
               /\ n = 1 => c.burst = "pass"

\* The second call of an identity, in the same 500 ms as the first one that
\* passed, is denied as burst on the interval.
C6_SecondCallDenied ==
    \E s \in DOMAIN calls :
        LET c == calls[s]
            h == issued[c.id]
        IN  /\ AdmitDone(s) /\ DefaultBurst(c)
            /\ Len(h) = 2 /\ h[1].passed /\ h[2].t - h[1].t <= 500
            /\ c.burst = "burst-interval" /\ c.result = "DENY" /\ c.kind = "burst"

\* C7: a call that completes less than minRequestInterval after an earlier
\* call of the identity passed the burst guard returns DENY(burst), or DENY
\* (blacklist) when the identity is banned in between.
C7_TooCloseDenied ==
    [][\A s \in DOMAIN calls :
          LET c == calls'[s]
              list == requestCache'[c.id]
              earlier == IF c.burst = "pass" THEN SubSeq(list, 1, Len(list) - 1) ELSE list
          IN  /\ calls[s].op = "admit" /\ calls[s].pc # "done" /\ c.pc = "done"
              /\ earlier # <<>>
              /\ now - earlier[Len(earlier)] < c.cfg.minRequestInterval
              => c.result = "DENY" /\ c.kind \in {"burst", "blacklist"}]_vars

\* C10: a call that checkBurstPattern rejected returns DENY(burst) whatever the
\* store does.
C10_BurstNeverOpen ==
    \A s \in DOMAIN calls :
        AdmitDone(s) /\ calls[s].burst \in {"burst-count", "burst-interval"} =>
            calls[s].result = "DENY" /\ calls[s].kind = "burst"

----------------------------------------------------------------------------
(* Faults of the store *)

\* The catch block ended the call while a count query was awaited.
CountFault(s) == AdmitDone(s) /\ calls[s].caught /\ calls[s].burst = "pass"

MinuteLogged(c) == CountSince(request_logs, c.id, c.fnow - 60 * 1000)

\* C9 as stated: when the per-minute query of checkRateLimits fails while the
\* identity has maxIPRequestsPerMinute rows in the last minute, the call is
\* still denied.
C9_StillDenied ==
    [][\A s \in DOMAIN calls :
          /\ calls[s].op = "admit" /\ calls[s].pc = "q_minute"
          /\ calls'[s].pc = "done"
          /\ MinuteLogged(calls[s]) >= calls[s].cfg.maxIPRequestsPerMinute
          => calls'[s].result = "DENY"]_vars

\* C9: a per-minute query that throws ends the whole call with ALLOW and no
\* later check runs; a per-minute query that returns an error is read as a
\* count of zero, so that check alone passes and the per-hour query follows; a
\* denial is decided only on a count that was really returned.
C9_FaultScope ==
    [][\A s \in DOMAIN calls :
          LET c == calls[s]
              d == calls'[s]
          IN  c.op = "admit" /\ c.pc = "q_minute" /\ d.pc # "q_minute" =>
                CASE d.pc = "done" ->
                        /\ d.result = "ALLOW" /\ d.caught
                        /\ d.trace = c.trace
                        /\ UNCHANGED <<mem, store>>
                  [] d.pc = "viol_insert" ->
                        /\ MinuteLogged(c) >= c.cfg.maxRequestsPerMinute
                        /\ d.kind = "rate-limit-minute"
                  [] OTHER ->
                        /\ d.pc = "q_hour"
                        /\ d.trace = Append(c.trace, "GLOBAL_HOUR")]_vars

\* The per-minute query returned an error with the identity at the per-minute
\* limit, and the call went on to the per-hour query.
C9_ErrorPassedMinute ==
    \E s \in DOMAIN calls :
        /\ calls[s].op = "admit" /\ calls[s].pc = "q_hour"
        /\ MinuteLogged(calls[s]) >= calls[s].cfg.maxRequestsPerMinute

----------------------------------------------------------------------------
(* Exceptions *)

\* C11: admit() never throws to its caller: whichever awaited call fails (the
\* identity lookup, the blacklist read, a count query, the request log, the
\* violation write, the auto-ban write or an audit write), a finished call has
\* returned allowed true or allowed false.
C11_NeverRaises ==
    \A s \in DOMAIN calls :
        calls[s].op = "admit" =>
            /\ calls[s].result \in {"none", "ALLOW", "DENY"}
            /\ calls[s].pc = "done" <=> calls[s].result \in {"ALLOW", "DENY"}
            /\ calls[s].caught => calls[s].pc = "done" /\ calls[s].result = "ALLOW"

\* The auto-ban write threw after the violation record of the 50th violation
\* had been written, and the call returned through the catch block.
C11_BanWriteThrew ==
    \E s \in DOMAIN calls :
        /\ AdmitDone(s) /\ calls[s].caught /\ calls[s].result = "ALLOW"
        /\ Len(calls[s].wrote) = 1
        /\ calls[s].wrote[1].event_type = "violation"
        /\ calls[s].wrote[1].violation_count >= defaultDDoSConfig.autoBlacklistThreshold

----------------------------------------------------------------------------
(* Unban *)

\* No ban of the identity is in the cache or in the table.
NeverBanned(clientId) ==
    /\ clientId \notin blacklistCache
    /\ \A r \in DOMAIN ip_blacklist : r.client_id # clientId

C13_AdmitAfterUnban ==
    [][\A s \in DOMAIN calls :
          /\ calls[s].op = "unban" /\ calls[s].pc = "done" /\ calls[s].result = "OK"
          /\ calls'[s].op = "admit" /\ calls'[s].id = calls[s].id
          /\ calls'[s].pc # "done"
          => /\ calls'[s].pc = "bl_query"
             /\ DOMAIN ActiveBans(ip_blacklist, calls[s].id, now) = {}]_vars

----------------------------------------------------------------------------
(* The ban list *)

\* Every ban of the identity in the table has expired.
Expired(clientId) ==
    /\ \E r \in DOMAIN ip_blacklist : r.client_id = clientId
    /\ \A r \in DOMAIN ip_blacklist : r.client_id = clientId => r.expires_at <= now

\* C14: once every durable ban of an identity has expired, admit() does not
\* deny the identity at BLACKLIST_CHECK any more.
C14_ExpiredBanLifted ==
    [][\A s \in DOMAIN calls :
          /\ calls[s].op = "admit" /\ calls[s].pc = "log_block"
          /\ calls'[s].pc = "done" /\ calls'[s].result = "DENY"
          => ~Expired(calls[s].id)]_vars

\* C15: with several unexpired bans of an identity in the table and the
\* identity not in the cache, a blacklist read that succeeds finds the identity
\* banned.
C15_SeveralBans ==
    \A s \in DOMAIN calls :
        /\ calls[s].op = "admit" /\ calls[s].pc = "bl_query"
        /\ BagCardinality(ActiveBans(ip_blacklist, calls[s].id, calls[s].fnow)) > 1
        => ENABLED (BlacklistReturn(s, "ok") /\ calls'[s].pc = "log_block")

----------------------------------------------------------------------------
(* What the window queries count *)

\* The rows of every identity since a time.
TotalSince(table, since) ==
    LET hit == {r \in DOMAIN table : r.timestamp >= since}
    IN  BagCardinality([r \in hit |-> table[r]])

\* The rows of one endpoint, of every identity, since a time.
EndpointSince(table, endpoint, since) ==
    LET hit == {r \in DOMAIN table : r.endpoint = endpoint /\ r.timestamp >= since}
    IN  BagCardinality([r \in hit |-> table[r]])

\* C16: the per-minute cap counts the requests of all identities: when the
\* table holds maxRequestsPerMinute rows of the last minute, whoever wrote
\* them, a per-minute query that succeeds denies the request.
C16_GlobalCount ==
    \A s \in DOMAIN calls :
        /\ calls[s].op = "admit" /\ calls[s].pc = "q_minute"
        /\ TotalSince(request_logs, calls[s].fnow - 60 * 1000)
               >= calls[s].cfg.maxRequestsPerMinute
        => ENABLED (MinuteReturn(s, "ok") /\ calls'[s].kind = "rate-limit-minute")

\* C17: the per-minute count is scoped to the endpoint: a request is denied on
\* it only when the rows of the last minute for the endpoint it asks for reach
\* the cap.
C17_EndpointScope ==
    \A s \in DOMAIN calls :
        /\ calls[s].op = "admit" /\ calls[s].pc = "viol_insert"
        /\ calls[s].kind = "rate-limit-minute"
        => EndpointSince(request_logs, calls[s].endpoint, calls[s].fnow - 60 * 1000)
               >= calls[s].cfg.maxRequestsPerMinute

----------------------------------------------------------------------------
(* Other identities *)

\* The rows of an identity in the ban table.
BansOf(table, clientId) ==
    LET hit == {r \in DOMAIN table : r.client_id = clientId}
    IN  [r \in hit |-> table[r]]

----------------------------------------------------------------------------
(* What a call writes *)

Rows(table) == BagCardinality(table)

\* C19 as stated: a call that returns ALLOW, through the catch block too, has
\* appended exactly one row to request_logs, and a call that returns DENY none.
C19_OneRowPerAllow ==
    [][\A s \in DOMAIN calls :
          calls[s].op = "admit" /\ calls[s].pc # "done" =>
              IF calls'[s].pc = "done" /\ calls'[s].result = "ALLOW"
              THEN Rows(request_logs') = Rows(request_logs) + 1
              ELSE request_logs' = request_logs]_vars

\* C19: only the last step of a call that returns ALLOW past all seven checks
\* appends to request_logs, and it appends one row of the caller, unless the
\* insert fails, which is swallowed; a call allowed by the catch block and a
\* call that returns DENY append nothing.
C19_RowOnlyAfterChecks ==
    [][/\ \A s \in DOMAIN calls :
             LET c == calls[s]
                 d == calls'[s]
             IN  c.op = "admit" /\ c.pc # "done" =>
                   IF d.pc = "done" /\ d.result = "ALLOW" /\ ~d.caught
                   THEN /\ c.pc = "log_request" /\ d.trace = CheckOrder
                        /\ \/ request_logs' = request_logs
                           \/ request_logs' =
                                 Insert(request_logs, LogRow(c.id, c.endpoint, now))
                   ELSE request_logs' = request_logs
       /\ request_logs' # request_logs =>
             \E s \in DOMAIN calls : calls[s].pc = "log_request"]_vars

\* A call was allowed past all seven checks and its row is in request_logs.
C19_AllowedAndLogged ==
    \E s \in DOMAIN calls :
        /\ AdmitDone(s) /\ calls[s].result = "ALLOW" /\ ~calls[s].caught
        /\ Rows(request_logs) = 1
        /\ CountSince(request_logs, calls[s].id, now) = 1

\* The violation events among the rows a call has written.
Violations(wrote) == SelectSeq(wrote, LAMBDA r : r.event_type = "violation")

\* C20 as stated: a call that returns DENY from another check than the
\* blacklist has incremented the violation counter of the identity by one and
\* has written exactly one violation event carrying the new count.
C20_OneRecordPerDeny ==
    \A s \in DOMAIN calls :
        AdmitDone(s) /\ calls[s].result = "DENY" /\ calls[s].kind # "blacklist" =>
            /\ Len(Violations(calls[s].wrote)) = 1
            /\ Violations(calls[s].wrote)[1].violation_count = violationCache[calls[s].id]

\* C20: a denial of another check than the blacklist increments the violation
\* counter of the identity by one and issues one insert of a violation event
\* carrying the new count; the event is written unless the store returns an
\* error, never twice, and nothing else in the call changes the counter.
C20_OneInsertPerDeny ==
    [][\A s \in DOMAIN calls :
          LET c == calls[s]
              d == calls'[s]
              row == EventRow(c.id, "violation", c.violationType,
                              violationCache[c.id], NoText)
          IN  c.op = "admit" /\ c.pc # "done" =>
                /\ d.pc = "viol_insert" /\ c.pc # "viol_insert" =>
                      /\ violationCache' = [violationCache EXCEPT ![c.id] = @ + 1]
                      /\ d.violations = violationCache'[c.id]
                      /\ d.wrote = <<>>
                /\ c.pc = "viol_insert" =>
                      /\ c.violations = violationCache[c.id]
                      /\ d.wrote \in {c.wrote, Append(c.wrote, row)}
                /\ d.pc # "viol_insert" => violationCache' = violationCache
                /\ c.pc # "viol_insert" => Violations(d.wrote) = Violations(c.wrote)
                /\ d.pc = "done" /\ d.result = "DENY" /\ d.kind # "blacklist" =>
                      /\ c.pc \in {"viol_insert", "log_blacklisted"}
                      /\ Len(Violations(d.wrote)) <= 1]_vars

\* A call was denied and its violation event carries the new count of two.
C20_SecondViolation ==
    \E s \in DOMAIN calls :
        /\ AdmitDone(s) /\ calls[s].result = "DENY" /\ calls[s].kind # "blacklist"
        /\ Len(Violations(calls[s].wrote)) = 1
        /\ Violations(calls[s].wrote)[1].violation_count = 2
        /\ violationCache[calls[s].id] = 2

----------------------------------------------------------------------------
(* The violation counter over time *)

\* C21: the violation counter of an identity never decreases while the
\* process lives: no step of admit(), ban() or unban() lowers it, and the
\* maintenance sweep a call runs when it is due leaves it as it was.
C21_CountNeverDecreases ==
    [][/\ \A i \in DOMAIN violationCache : violationCache'[i] >= violationCache[i]
       /\ lastCleanup' # lastCleanup => violationCache' = violationCache]_vars

----------------------------------------------------------------------------
(* Concurrent calls *)

\* Two calls of checkDDoSProtection in flight at once (a double submit).
RaceSlots == {1, 2}

\* Time passes while calls are awaiting the store.
Elapse(d) ==
    /\ ticks < MaxTicks
    /\ now' = now + d
    /\ ticks' = ticks + 1
    /\ issued' = [i \in DOMAIN issued |-> Within(issued[i], now + d)]
    /\ UNCHANGED <<mem, store, calls, sessionStorage, services>>

InitRace ==
    /\ now = 0
    /\ requestCache = [i \in Ids |-> <<>>]
    /\ blacklistCache = {}
    /\ violationCache = [i \in Ids |-> 0]
    /\ lastCleanup = 0
    /\ request_logs = EmptyBag
    /\ ip_blacklist = EmptyBag
    /\ calls = [s \in RaceSlots |-> Idle]
    /\ issued = [i \in Ids |-> <<>>]
    /\ ticks = 0
    /\ ServicesIdle
    /\ sessionStorage = ""

\* How long an awaited call can take: a tenth of a second, a second.
Latencies == {100, 1000}

\* The configuration of the race: two requests per second, one logged request
\* per minute.
raceConfig == [customConfig EXCEPT !.maxBurstRequests = 2]

AdmitRace ==
    \E s \in DOMAIN calls, i \in Ids, e \in Endpoints :
        AdmitBegin(s, i, e, raceConfig)
Wait == \E d \in Latencies : Elapse(d)

\* The store answers every call of the race: no error and no rejected promise.
BlacklistAnswer == \E s \in DOMAIN calls : BlacklistReturn(s, "ok")
MinuteAnswer == \E s \in DOMAIN calls : MinuteReturn(s, "ok")
HourAnswer == \E s \in DOMAIN calls : HourReturn(s, "ok")
DayAnswer == \E s \in DOMAIN calls : DayReturn(s, "ok")
IPMinuteAnswer == \E s \in DOMAIN calls : IPMinuteReturn(s, "ok")
IPHourAnswer == \E s \in DOMAIN calls : IPHourReturn(s, "ok")
RequestAnswer == \E s \in DOMAIN calls : RequestLogged(s, "ok")
ViolationAnswer == \E s \in DOMAIN calls : ViolationInserted(s, "ok")

\* Admission under one configuration, calls interleaved at their awaits.
NextRace ==
    \/ AdmitRace
    \/ BlacklistAnswer
    \/ MinuteAnswer
    \/ HourAnswer
    \/ DayAnswer
    \/ IPMinuteAnswer
    \/ IPHourAnswer
    \/ RequestAnswer
    \/ ViolationAnswer
    \/ Wait

SpecRace == InitRace /\ [][NextRace]_vars

\* The rows of the identity of call c in the minute before the clock reading
\* of the call.
IPMinuteLogged(c) == CountSince(request_logs, c.id, c.fnow - 60 * 1000)

\* C22: the count and the append of admit() are not one step: the per-minute
\* query of checkIPLimits passes on the rows the table holds when it returns,
\* and a call whose queries have passed is allowed and appends its row whatever
\* has been appended since, so that two calls in flight that both read one row
\* less than the cap are both allowed and leave the identity above the cap.
C22_CountThenAppend ==
    [][\A s \in DOMAIN calls :
          LET c == calls[s]
              d == calls'[s]
          IN  /\ c.pc = "q_ipmin" /\ d.pc = "q_iphour" =>
                    IPMinuteLogged(c) < c.cfg.maxIPRequestsPerMinute
              /\ c.pc = "log_request" /\ d # c =>
                    /\ d.pc = "done" /\ d.result = "ALLOW" /\ ~d.caught
                    /\ request_logs' =
                          Insert(request_logs, LogRow(c.id, c.endpoint, c.fnow))]_vars

\* Two calls of one identity were both allowed past all seven checks and the
\* rows of the identity in the last minute are more than maxIPRequestsPerMinute.
C22_CapExceeded ==
    \E s, t \in DOMAIN calls :
        /\ s # t /\ calls[s].id = calls[t].id
        /\ \A u \in {s, t} :
              AdmitDone(u) /\ calls[u].result = "ALLOW" /\ ~calls[u].caught
        /\ CountSince(request_logs, calls[s].id, now - 60 * 1000)
               > calls[s].cfg.maxIPRequestsPerMinute

----------------------------------------------------------------------------
(* getClientIdentifier *)

\* What supabase.auth.getUser() can give: a user, no user, a rejected promise.
Users == {"u1"}
UserOutcomes == Users \cup {"none", "throw"}

\* What the fetch of api.ipify.org can give: a body with the address, a body
\* without one, a rejected promise (of fetch or of response.json()).
Addresses == {"203.0.113.7"}
IPOutcomes == Addresses \cup {"noip", "throw"}

\* `session_${Date.now()}_${Math.random().toString(36).substring(7)}`
Tokens == {"session_0_k3x9", "session_0_p7q2"}

\* Line 398: getClientIdentifier is called and awaits the user.
GetClientIdentifier(s) ==
    /\ Free(s)
    /\ calls' = [calls EXCEPT ![s] =
           [Idle EXCEPT !.op = "identify", !.pc = "get_user", !.trace = <<"USER">>]]
    /\ UNCHANGED <<now, sessionStorage, services, mem, store, issued, ticks>>

\* Lines 407-415: the catch block. An item that is set is returned; otherwise
\* a token is made, stored and returned; without sessionStorage the block throws.
SessionFallback(s, available) ==
    LET c == [calls[s] EXCEPT !.trace = Append(@, "SESSION"), !.caught = TRUE]
    IN  IF ~available
        THEN calls' = [calls EXCEPT ![s] = Reject(c)] /\ UNCHANGED sessionStorage
        ELSE IF sessionStorage # ""
        THEN /\ calls' = [calls EXCEPT ![s] = Done([c EXCEPT !.id = sessionStorage], "OK")]
             /\ UNCHANGED sessionStorage
        ELSE \E sessionId \in Tokens :
                /\ sessionStorage' = sessionId
                /\ calls' = [calls EXCEPT ![s] = Done([c EXCEPT !.id = sessionId], "OK")]

\* Lines 398-404: getUser() returns; a user is the identity, no user goes on to
\* the fetch, a rejected promise goes to the catch block.
UserReturn(s, out, available) ==
    /\ calls[s].pc = "get_user"
    /\ IF out \in Users
       THEN /\ calls' = [calls EXCEPT ![s] =
                   Done([calls[s] EXCEPT !.id = "user_" \o out], "OK")]
            /\ UNCHANGED sessionStorage
       ELSE IF out = "none"
       THEN /\ calls' = [calls EXCEPT ![s] =
                   [calls[s] EXCEPT !.pc = "fetch_ip", !.trace = Append(@, "IP")]]
            /\ UNCHANGED sessionStorage
       ELSE SessionFallback(s, available)
    /\ UNCHANGED <<now, services, mem, store, issued, ticks>>

\* Lines 404-406: the fetch and response.json() return; data.ip || 'unknown' is
\* the identity, a rejected promise goes to the catch block.
IPReturn(s, out, available) ==
    /\ calls[s].pc = "fetch_ip"
    /\ IF out \in Addresses
       THEN /\ calls' = [calls EXCEPT ![s] = Done([calls[s] EXCEPT !.id = out], "OK")]
            /\ UNCHANGED sessionStorage
       ELSE IF out = "noip"
       THEN /\ calls' = [calls EXCEPT ![s] =
                   Done([calls[s] EXCEPT !.id = "unknown"], "OK")]
            /\ UNCHANGED sessionStorage
       ELSE SessionFallback(s, available)
    /\ UNCHANGED <<now, services, mem, store, issued, ticks>>

Identify == \E s \in DOMAIN calls : GetClientIdentifier(s)
UserLookup ==
    \E s \in DOMAIN calls, out \in UserOutcomes, available \in BOOLEAN :
        UserReturn(s, out, available)
IPLookup ==
    \E s \in DOMAIN calls, out \in IPOutcomes, available \in BOOLEAN :
        IPReturn(s, out, available)

\* The resolver alone, called again and again as time passes.
NextResolve ==
    \/ Identify
    \/ UserLookup
    \/ IPLookup
    \/ Clock

SpecResolve == Init /\ [][NextResolve]_vars

ResolveOrder == <<"USER", "IP", "SESSION">>

\* C23: getClientIdentifier tries the user, then the IP lookup, then the
\* session token, in this order and none left out before a later one is used;
\* the identity it returns is never empty; and once the session token is set,
\* the fallback returns that token and leaves it set.
C23_ResolutionOrder ==
    [][\A s \in DOMAIN calls :
          LET c == calls[s]
              d == calls'[s]
          IN  d.op = "identify" =>
                /\ IsPrefix(d.trace, ResolveOrder)
                /\ d.pc = "done" /\ d.result = "OK" => d.id # ""
                /\ c.pc # "done" /\ d.caught /\ d.result = "OK" /\ sessionStorage # "" =>
                      d.id = sessionStorage /\ sessionStorage' = sessionStorage]_vars

----------------------------------------------------------------------------
(* Malformed configurations *)

\* Caller-supplied configurations with a negative burst ceiling and with a
\* negative per-minute cap.
negativeBurstConfig == [defaultDDoSConfig EXCEPT !.maxBurstRequests = -1]
negativeMinuteConfig == [defaultDDoSConfig EXCEPT !.maxRequestsPerMinute = -1]

MalformedConfigs == {negativeBurstConfig, negativeMinuteConfig}

\* Every number of a DDoSConfig is at least zero.
WellFormed(config) == \A f \in DOMAIN config : config[f] >= 0

AdmitMalformed ==
    \E s \in DOMAIN calls, i \in DOMAIN violationCache, e \in Endpoints,
       g \in MalformedConfigs :
        AdmitBegin(s, i, e, g)

\* Admission called with malformed configurations.
NextMalformed ==
    \/ AdmitMalformed
    \/ BlacklistQuery
    \/ MinuteQuery
    \/ ViolationInsert
    \/ Clock

SpecMalformed == Init /\ [][NextMalformed]_vars

\* C24: a configuration with a negative number is rejected before any
\* request is evaluated: no check of admit() runs under it and no ALLOW or DENY
\* is computed from it.
C24_MalformedRejected ==
    \A s \in DOMAIN calls :
        calls[s].op = "admit" /\ ~WellFormed(calls[s].cfg) =>
            /\ calls[s].trace = <<>>
            /\ calls[s].result \notin {"ALLOW", "DENY"}

----------------------------------------------------------------------------
(* The metadata of an ALLOW *)

\* One call at a time whose awaits take time: admission alone, the store
\* answering, failing or throwing.
NextSlow ==
    \/ Admit
    \/ BlacklistQuery
    \/ MinuteQuery
    \/ HourQuery
    \/ DayQuery
    \/ IPMinuteQuery
    \/ IPHourQuery
    \/ RequestLog
    \/ ViolationInsert
    \/ Wait

SpecSlow == Init /\ [][NextSlow]_vars

----------------------------------------------------------------------------
(* The blacklist lookup *)

\* The blacklist query of call s returns with outcome out and the lookup says
\* banned.
ReturnsBanned(s, out) == BlacklistReturn(s, out) /\ calls'[s].pc = "log_block"

\* C26: checkBlacklist answers banned from the cache without a query; on a
\* cache miss it queries the table for entries of the identity with
\* expires_at > now; when there are such entries and the query succeeds, the
\* identity enters the cache and the answer is banned; when there are none, or
\* the query fails, the answer is not banned and the cache stays as it is.
C26_LookupOrder ==
    \A s \in DOMAIN calls :
        LET c == calls[s]
            entries == ActiveBans(ip_blacklist, c.id, c.fnow)
        IN  /\ c.op = "admit" /\ c.pc = "log_block" /\ c.trace = <<"BLACKLIST_CHECK">> =>
                  c.id \in blacklistCache
            /\ c.op = "admit" /\ c.pc = "bl_query" =>
                  /\ entries # EmptyBag =>
                        ENABLED (ReturnsBanned(s, "ok") /\ c.id \in blacklistCache')
                  /\ entries = EmptyBag => ~ENABLED ReturnsBanned(s, "ok")
                  /\ ~ENABLED (\E out \in Outcomes :
                                  /\ BlacklistReturn(s, out)
                                  /\ calls'[s].pc # "log_block"
                                  /\ blacklistCache' # blacklistCache)
                  /\ ~ENABLED (\E out \in {"error", "throw"} : ReturnsBanned(s, out))

----------------------------------------------------------------------------
(* What a violation record says *)

\* The tables two calls can find: nothing, or two rows of the identity.
HorizonStores == {EmptyBag, Twice(LogRow("a", "/api/create-qr", 0))}

InitHorizons ==
    /\ now = 0
    /\ requestCache = [i \in Ids |-> <<>>]
    /\ blacklistCache = {}
    /\ violationCache = [i \in Ids |-> 0]
    /\ lastCleanup = 0
    /\ request_logs \in HorizonStores
    /\ ip_blacklist = EmptyBag
    /\ calls = [s \in RaceSlots |-> Idle]
    /\ issued = [i \in Ids |-> <<>>]
    /\ ticks = 0
    /\ ServicesIdle
    /\ sessionStorage = ""

\* Admission under one configuration over minutes and hours, the store
\* answering every call; the results of two calls are kept side by side.
NextHorizons ==
    \/ AdmitRace
    \/ BlacklistAnswer
    \/ MinuteAnswer
    \/ HourAnswer
    \/ DayAnswer
    \/ IPMinuteAnswer
    \/ IPHourAnswer
    \/ RequestAnswer
    \/ ViolationAnswer
    \/ Clock

SpecHorizons == InitHorizons /\ [][NextHorizons]_vars

\* The violationType checkDDoSProtection hands to recordViolation for a denial.
ViolationTypeOf(kind) ==
    CASE kind = "burst" -> "burst_detected"
      [] kind \in {"rate-limit-minute", "rate-limit-hour", "rate-limit-day"} ->
            "rate_limit_exceeded"
      [] kind \in {"ip-limit-minute", "ip-limit-hour"} -> "ip_limit_exceeded"
      [] OTHER -> ""

\* The call of slot s was denied and its violation event is written.
Recorded(s) ==
    /\ AdmitDone(s) /\ calls[s].result = "DENY"
    /\ Len(Violations(calls[s].wrote)) = 1

\* C27 as stated: the violation events of two requests denied by different
\* policies, by different horizons too, are recorded with different kinds.
C27_KindPerPolicy ==
    \A s, t \in DOMAIN calls :
        Recorded(s) /\ Recorded(t) /\ calls[s].kind # calls[t].kind =>
            Violations(calls[s].wrote)[1].violation_type
                # Violations(calls[t].wrote)[1].violation_type

\* C27: the violation event of a denied request carries one of three types:
\* burst_detected for the burst guard, rate_limit_exceeded for the per-minute,
\* per-hour and per-day caps alike, ip_limit_exceeded for the two caps of
\* checkIPLimits; the horizon that denied is not recorded.
C27_CoarseTypes ==
    \A s \in DOMAIN calls :
        LET c == calls[s]
            v == Violations(c.wrote)
        IN  c.op = "admit" =>
              /\ c.pc = "viol_insert" =>
                    c.violationType = ViolationTypeOf(c.kind) /\ c.violationType # ""
              /\ \A j \in 1..Len(v) :
                    /\ v[j].violation_type = ViolationTypeOf(c.kind)
                    /\ v[j].violation_type # ""

\* One request was denied on the per-minute cap and one on the per-hour cap,
\* and both violation events say rate_limit_exceeded.
C27_MinuteAndHourAlike ==
    \E s, t \in DOMAIN calls :
        /\ Recorded(s) /\ Recorded(t)
        /\ calls[s].kind = "rate-limit-minute" /\ calls[t].kind = "rate-limit-hour"
        /\ Violations(calls[s].wrote)[1].violation_type = "rate_limit_exceeded"
        /\ Violations(calls[t].wrote)[1].violation_type = "rate_limit_exceeded"

----------------------------------------------------------------------------
(* The burst window *)

\* A caller-supplied configuration that lets one request through per second.
oneBurstConfig == [defaultDDoSConfig EXCEPT !.maxBurstRequests = 1]

AdmitWindow ==
    \E s \in DOMAIN calls, i \in DOMAIN violationCache, e \in Endpoints,
       g \in {oneBurstConfig, customConfig} :
        AdmitBegin(s, i, e, g)

\* One call at a time, a tenth of a second or a full second apart.
NextWindow ==
    \/ AdmitWindow
    \/ BlacklistQuery
    \/ MinuteQuery
    \/ HourQuery
    \/ DayQuery
    \/ IPMinuteQuery
    \/ IPHourQuery
    \/ RequestLog
    \/ ViolationInsert
    \/ Wait

SpecWindow == Init /\ [][NextWindow]_vars

\* The call of slot s goes through checkBurstPattern in this step.
BurstStep(s) == calls[s].pc = "bl_query" /\ calls'[s].burst # ""

\* The stored timestamps of the identity that are at most age old.
NotOlder(clientId, age) ==
    {j \in 1..Len(requestCache[clientId]) : now - requestCache[clientId][j] <= age}

\* C28 as stated: checkBurstPattern counts the stored timestamps that are not
\* older than 1000 ms, the one exactly 1000 ms before now among them, and denies
\* on the ceiling when they are maxBurstRequests or more.
C28_FullSecondCounted ==
    [][\A s \in DOMAIN calls :
          BurstStep(s) =>
              (calls'[s].burst = "burst-count"
                  <=> Cardinality(NotOlder(calls[s].id, 1000))
                          >= calls[s].cfg.maxBurstRequests)]_vars

\* C28: checkBurstPattern counts the stored timestamps less than 1000 ms
\* before now: one exactly 1000 ms old is pruned like the older ones, counts
\* neither toward the ceiling nor in the interval check, and is gone from the
\* list the call stores when it passes.
C28_FullSecondPruned ==
    [][\A s \in DOMAIN calls :
          LET c == calls[s]
              d == calls'[s]
              list == requestCache[c.id]
              kept == NotOlder(c.id, 999)
              last == CHOOSE j \in kept : \A k \in kept : k <= j
              after == requestCache'[c.id]
          IN  BurstStep(s) =>
                /\ d.burst = "burst-count" <=> Cardinality(kept) >= c.cfg.maxBurstRequests
                /\ d.burst = "burst-interval" <=>
                      /\ Cardinality(kept) < c.cfg.maxBurstRequests
                      /\ kept # {}
                      /\ now - list[last] < c.cfg.minRequestInterval
                /\ d.burst = "pass" =>
                      /\ Len(after) = Cardinality(kept) + 1
                      /\ after[Len(after)] = now
                      /\ \A j \in 1..Len(after) : now - after[j] < 1000
                /\ d.burst # "pass" => after = list]_vars

\* With a ceiling of one, a call passed the burst guard exactly 1000 ms after
\* the request before it, whose row is in request_logs, and only its own
\* timestamp is stored.
C28_PassedAfterFullSecond ==
    \E s \in DOMAIN calls :
        /\ calls[s].op = "admit" /\ calls[s].pc = "q_minute"
        /\ calls[s].burst = "pass"
        /\ calls[s].cfg.maxBurstRequests = 1
        /\ now = 1000 /\ ticks = 1
        /\ requestCache[calls[s].id] = <<now>>
        /\ \E r \in DOMAIN request_logs :
              r.ip_address = calls[s].id /\ r.timestamp = now - 1000

\* C29: a call that checkBurstPattern rejects stores nothing: the list of the
\* identity is the same before and after the check and through the rest of the
\* call, however often it is repeated; a call that passes stores the pruned
\* list with now appended; and a sweep at the start of a call changes the list
\* of the caller only when no timestamp of the last second is left in it.
C29_DeniedNotStored ==
    [][\A s \in DOMAIN calls :
          LET c == calls[s]
              d == calls'[s]
              list == requestCache[d.id]
              after == requestCache'[d.id]
          IN  d.op = "admit" /\ d # c =>
                /\ BurstStep(s) /\ d.burst # "pass" => requestCache' = requestCache
                /\ BurstStep(s) /\ d.burst = "pass" =>
                      /\ after # list
                      /\ after[Len(after)] = now
                      /\ \A j \in 1..(Len(after) - 1) :
                            \E k \in 1..Len(list) : list[k] = after[j]
                /\ c.pc # "done" /\ c.burst \in {"burst-count", "burst-interval"} =>
                      requestCache' = requestCache
                /\ Begins(s) /\ after # list =>
                      \A j \in 1..Len(after) : now - after[j] >= 1000]_vars

\* The identity was denied as burst twice in the millisecond of its first
\* request, and the stored list is still that one timestamp.
C29_DeniedTwiceSameList ==
    \E s \in DOMAIN calls :
        /\ AdmitDone(s) /\ calls[s].result = "DENY" /\ calls[s].kind = "burst"
        /\ violationCache[calls[s].id] = 2
        /\ requestCache[calls[s].id] = <<now>>

----------------------------------------------------------------------------
(* The burst lists under interleaving *)

Sorted(list) == \A j \in 1..(Len(list) - 1) : list[j] <= list[j + 1]

Spaced(list, interval) ==
    \A j \in 1..(Len(list) - 1) : list[j + 1] - list[j] >= interval

\* The most timestamps of the list that one span of 1000 ms holds.
AtMostPerSecond(list, k) ==
    \A j \in 1..Len(list) :
        Cardinality({m \in j..Len(list) : list[m] - list[j] < 1000}) <= k

\* C30: with calls of one configuration interleaved at their awaits and a
\* clock that does not go back, every step leaves every stored burst list
\* sorted, with at most maxBurstRequests timestamps in any 1000 ms and
\* consecutive timestamps at least minRequestInterval apart; a call that
\* passes the burst guard stores every timestamp of the last second that was
\* stored before it and its own, and nothing but a passing check or the sweep
\* at the start of a call changes a list.
C30_BurstListsSound ==
    [][/\ \A i \in DOMAIN requestCache :
             /\ Sorted(requestCache'[i])
             /\ Spaced(requestCache'[i], raceConfig.minRequestInterval)
             /\ AtMostPerSecond(requestCache'[i], raceConfig.maxBurstRequests)
       /\ \A s \in DOMAIN calls :
             BurstStep(s) /\ calls'[s].burst = "pass" =>
                 LET list == requestCache[calls[s].id]
                     after == requestCache'[calls[s].id]
                 IN  /\ after[Len(after)] = now
                     /\ \A j \in 1..Len(list) :
                           now - list[j] < 1000 =>
                               \E m \in 1..Len(after) : after[m] = list[j]
       /\ requestCache' # requestCache =>
             \E s \in DOMAIN calls :
                 \/ BurstStep(s) /\ calls'[s].burst = "pass"
                 \/ Begins(s)]_vars

\* Two calls in flight at once have both passed the burst guard, and the list
\* of their identity holds both timestamps.
C30_BothStored ==
    \E s, t \in DOMAIN calls :
        /\ s # t /\ calls[s].id = calls[t].id
        /\ \A u \in {s, t} :
              /\ calls[u].op = "admit" /\ calls[u].pc \notin {"idle", "done", "bl_query"}
              /\ calls[u].burst = "pass"
        /\ Len(requestCache[calls[s].id]) = 2

----------------------------------------------------------------------------
(* Calls one after another *)

\* A caller-supplied configuration whose per-identity caps differ: one request
\* per minute, two per hour.
sequenceConfig == [customConfig EXCEPT !.maxIPRequestsPerHour = 2]

\* A caller passes the same configuration on every call: it is the one of the
\* slot from the start.
InitSequence ==
    /\ now = 0
    /\ requestCache = [i \in Ids |-> <<>>]
    /\ blacklistCache = {}
    /\ violationCache = [i \in Ids |-> 0]
    /\ lastCleanup = 0
    /\ request_logs = EmptyBag
    /\ ip_blacklist = EmptyBag
    /\ \E g \in {raceConfig, sequenceConfig} : calls = [s \in Slots |-> [Idle EXCEPT !.cfg = g]]
    /\ issued = [i \in Ids |-> <<>>]
    /\ ticks = 0
    /\ ServicesIdle
    /\ sessionStorage = ""

AdmitSame ==
    \E s \in DOMAIN calls, i \in Ids, e \in Endpoints :
        AdmitBegin(s, i, e, calls[s].cfg)

\* One call after another under one configuration, the store answering every
\* call, time passing between the calls and during them.
NextSequence ==
    \/ AdmitSame
    \/ BlacklistAnswer
    \/ MinuteAnswer
    \/ HourAnswer
    \/ DayAnswer
    \/ IPMinuteAnswer
    \/ IPHourAnswer
    \/ RequestAnswer
    \/ ViolationAnswer
    \/ Clock
    \/ Wait

SpecSequence == InitSequence /\ [][NextSequence]_vars

\* The rows of the identity with a timestamp in the span milliseconds up to t.
Trailing(table, clientId, t, span) ==
    LET hit == {r \in DOMAIN table :
                   r.ip_address = clientId /\ r.timestamp >= t - span /\ r.timestamp <= t}
    IN  BagCardinality([r \in hit |-> table[r]])

\* The times at which a trailing window can hold the most rows: now and the
\* timestamp of every row.
WindowEnds == {now} \cup {r.timestamp : r \in DOMAIN request_logs}

\* C31: when the calls of an identity run one after another under one
\* configuration and the store answers every call, the rows of the identity in
\* the 60 s up to any time are never more than maxIPRequestsPerMinute and those
\* in the 3600 s up to any time never more than maxIPRequestsPerHour.
C31_SequentialCaps ==
    \A s \in DOMAIN calls, i \in DOMAIN requestCache, t \in WindowEnds :
        /\ Trailing(request_logs, i, t, 60 * 1000) <= calls[s].cfg.maxIPRequestsPerMinute
        /\ Trailing(request_logs, i, t, 60 * 60 * 1000) <= calls[s].cfg.maxIPRequestsPerHour

\* Under one request per minute and two per hour the identity has two rows,
\* more than a minute and less than an hour apart.
C31_TwoRowsMinuteApart ==
    \E r, q \in DOMAIN request_logs :
        /\ r.ip_address = q.ip_address
        /\ q.timestamp - r.timestamp > 60 * 1000
        /\ q.timestamp - r.timestamp < 60 * 60 * 1000
        /\ \A s \in DOMAIN calls :
              AdmitDone(s) /\ calls[s].result = "ALLOW" /\ calls[s].cfg = sequenceConfig

----------------------------------------------------------------------------
(* What the burst list records *)

\* The call of slot s is past the burst guard and has not returned.
PastBurst(s) ==
    /\ calls[s].op = "admit" /\ calls[s].pc \notin {"idle", "done"}
    /\ calls[s].burst = "pass"

\* C32: a request that passes the burst guard has its timestamp appended to
\* the list of its identity at that moment, and nothing the call does
\* afterwards takes it out again: when the call is then denied by a window cap
\* or let through by the catch block, the list still ends with that timestamp,
\* so the list records the requests that passed BURST_CHECK and not those that
\* were logged.
C32_PassedStaysListed ==
    [][\A s \in DOMAIN calls :
          LET c == calls[s]
              d == calls'[s]
              after == requestCache'[d.id]
          IN  /\ BurstStep(s) /\ d.burst = "pass" =>
                    after # <<>> /\ after[Len(after)] = now
              /\ PastBurst(s) =>
                    /\ requestCache' = requestCache
                    /\ d.burst = "pass"
                    /\ d.pc = "done" => after # <<>> /\ after[Len(after)] <= now]_vars

\* A second request passed the burst guard and was denied on the per-minute
\* cap of checkIPLimits: the list holds two timestamps, request_logs one row.
C32_ListedNotLogged ==
    \E s \in DOMAIN calls :
        /\ AdmitDone(s) /\ calls[s].result = "DENY"
        /\ calls[s].kind = "ip-limit-minute" /\ calls[s].burst = "pass"
        /\ Len(requestCache[calls[s].id]) = 2
        /\ Rows(request_logs) = 1

----------------------------------------------------------------------------
(* The violation counter between sweeps and unbans *)

\* Admission from two violations below the threshold, with the bans it writes
\* itself and an operator who unbans.
NextCount ==
    \/ Admit
    \/ BlacklistQuery
    \/ BlockLog
    \/ MinuteQuery
    \/ HourQuery
    \/ DayQuery
    \/ IPMinuteQuery
    \/ IPHourQuery
    \/ RequestLog
    \/ ViolationInsert
    \/ BlacklistInsert
    \/ BlacklistLog
    \/ Unban
    \/ UnbanDelete
    \/ UnbanLog
    \/ Clock

SpecCount == InitEscalate /\ [][NextCount]_vars

\* This step runs cleanupCache: lastCleanup is set to the clock.
Swept == lastCleanup' # lastCleanup

\* This step is recordViolation(clientId, ...) up to its first await.
Violated(clientId) ==
    \E s \in DOMAIN calls :
        /\ calls[s].pc # "viol_insert" /\ calls'[s].pc = "viol_insert"
        /\ calls'[s].id = clientId

\* This step is unblacklistIP(clientId) past its delete.
Unbanned(clientId) ==
    \E s \in DOMAIN calls :
        /\ calls[s].pc = "unban_delete" /\ calls'[s].pc = "unban_log"
        /\ calls[s].id = clientId

\* This step is recordViolation going on to blacklistIP.
AutoBanned(s) == calls[s].pc = "viol_insert" /\ calls'[s].pc = "bl_insert"

----------------------------------------------------------------------------
(* The sweep and the burst guard *)

\* The clock readings of a burst check that follows a sweep run now: in the
\* same call, or after one of the delays of the model.
CheckTimes == {now} \cup {now + d : d \in Deltas \cup Latencies}

\* C34: a sweep run now changes no later decision of the burst guard: for every
\* identity, configuration and later clock reading, checkBurstPattern decides
\* the same, for the same reason, over the request cache as it is and over the
\* cache cleanupCache would leave, and a passing check stores the same list.
C34_SweepKeepsBurstDecision ==
    \A i \in DOMAIN requestCache, g \in Configs, t \in CheckTimes :
        LET kept == checkBurstPattern(requestCache, i, g, t)
            swept == checkBurstPattern(cleanupRequests(requestCache, now), i, g, t)
        IN  /\ kept.allowed = swept.allowed
            /\ kept.reason = swept.reason
            /\ kept.allowed => kept.cache[i] = swept.cache[i]

\* The sweep is due and takes a timestamp out of the list of an identity.
C34_SweepRemoves ==
    /\ \A s \in DOMAIN calls : Free(s)
    /\ SweepDue(now, lastCleanup)
    /\ \E i \in DOMAIN requestCache :
          /\ requestCache[i] # <<>>
          /\ cleanupRequests(requestCache, now)[i] = <<>>

----------------------------------------------------------------------------
(* An unban while a blacklist lookup is in flight *)

\* A process whose identity has an unexpired ban in the table, known to the
\* cache or not yet.
InitRevoke ==
    /\ now = 0
    /\ requestCache = [i \in Ids |-> <<>>]
    /\ blacklistCache \in {{}, Ids}
    /\ violationCache = [i \in Ids |-> 0]
    /\ lastCleanup = 0
    /\ request_logs = EmptyBag
    /\ ip_blacklist = ExpiringBan
    /\ calls = [s \in RaceSlots |-> Idle]
    /\ issued = [i \in Ids |-> <<>>]
    /\ ticks = 0
    /\ ServicesIdle
    /\ sessionStorage = ""

\* Lines 124-129: the store runs the select of checkBlacklist; the reply, the
\* row when exactly one is unexpired, is on its way to the process.
BlacklistRead(s) ==
    /\ calls[s].pc = "bl_query"
    /\ LET c == calls[s]
           data == ActiveBans(ip_blacklist, c.id, c.fnow)
           row == CHOOSE r \in DOMAIN data : TRUE
       IN  calls' = [calls EXCEPT ![s] =
               [c EXCEPT !.pc = "bl_reply",
                         !.expiresAt = IF Single(data) THEN row.expires_at ELSE 0]]
    /\ UNCHANGED <<now, sessionStorage, services, mem, store, issued, ticks>>

\* Lines 131-143 and 73-81: the reply reaches the process; with a row the
\* identity is put into the cache and the call is blocked, without one the
\* burst check runs.
BlacklistReplied(s) ==
    /\ calls[s].pc = "bl_reply"
    /\ LET c == [calls[s] EXCEPT !.expiresAt = 0]
           found == calls[s].expiresAt > 0
           burst == checkBurstPattern(requestCache, c.id, c.cfg, now)
           c1 == [c EXCEPT !.trace = Append(@, "BURST_CHECK")]
       IN  IF found
           THEN /\ blacklistCache' = blacklistCache \cup {c.id}
                /\ calls' = [calls EXCEPT ![s] =
                       [c EXCEPT !.pc = "log_block", !.kind = "blacklist"]]
                /\ UNCHANGED <<requestCache, violationCache>>
           ELSE IF ~burst.allowed
           THEN /\ violationCache' = [violationCache EXCEPT ![c.id] = @ + 1]
                /\ calls' = [calls EXCEPT ![s] =
                       recordViolation([c1 EXCEPT !.kind = "burst", !.burst = burst.reason],
                                       violationCache, "burst_detected")]
                /\ requestCache' = burst.cache
                /\ UNCHANGED blacklistCache
           ELSE /\ requestCache' = burst.cache
                /\ calls' = [calls EXCEPT ![s] = BurstPassed(c1, now)]
                /\ UNCHANGED <<violationCache, blacklistCache>>
    /\ UNCHANGED <<now, sessionStorage, services, lastCleanup, store, issued, ticks>>

BlacklistLookup == \E s \in DOMAIN calls : BlacklistRead(s)
BlacklistReply == \E s \in DOMAIN calls : BlacklistReplied(s)
BlockAnswer == \E s \in DOMAIN calls : BlockLogged(s, "ok")
UnbanAnswer == \E s \in DOMAIN calls : UnbanDeleted(s, "ok")
UnbanLogAnswer == \E s \in DOMAIN calls : UnbanLogged(s, "ok")

\* Admissions and unbans interleaved at their awaits; the store answers every
\* call, and nobody bans.
NextRevoke ==
    \/ AdmitRace
    \/ BlacklistLookup
    \/ BlacklistReply
    \/ BlockAnswer
    \/ MinuteAnswer
    \/ HourAnswer
    \/ DayAnswer
    \/ IPMinuteAnswer
    \/ IPHourAnswer
    \/ RequestAnswer
    \/ ViolationAnswer
    \/ Unban
    \/ UnbanAnswer
    \/ UnbanLogAnswer
    \/ Wait

SpecRevoke == InitRevoke /\ [][NextRevoke]_vars

\* unblacklistIP(clientId) has returned in slot u.
UnbanDone(u, clientId) ==
    /\ calls[u].op = "unban" /\ calls[u].pc = "done" /\ calls[u].result = "OK"
    /\ calls[u].id = clientId

\* C35 as stated: once unban(identity) has completed, and nobody bans, no
\* admit() for the identity is denied at BLACKLIST_CHECK, whether or not it
\* was in flight while the unban ran, and the identity stays out of the cache.
C35_NoBlockAfterUnban ==
    [][\A s, u \in DOMAIN calls :
          UnbanDone(u, calls'[s].id) /\ calls'[s].op = "admit" =>
              /\ ~(calls[s].pc # "log_block" /\ calls'[s].pc = "log_block")
              /\ calls'[s].id \notin blacklistCache']_vars

----------------------------------------------------------------------------
(* The blacklist cache against the table *)

\* C36 as stated: every identity in blacklistCache has a row, expired or not,
\* in ip_blacklist: the cache gains an identity only together with a row.
C36_CachedHasRow ==
    \A i \in blacklistCache : \E r \in DOMAIN ip_blacklist : r.client_id = i

----------------------------------------------------------------------------
(* Termination of admit() *)

\* A store call of a request in flight returns or throws.
Collaborators ==
    \/ BlacklistQuery
    \/ BlockLog
    \/ MinuteQuery
    \/ HourQuery
    \/ DayQuery
    \/ IPMinuteQuery
    \/ IPHourQuery
    \/ RequestLog
    \/ ViolationInsert
    \/ BlacklistInsert
    \/ BlacklistLog

\* Admission with the bans it writes itself, every awaited call answered in
\* the end.
SpecLive == InitEscalate /\ [][NextEscalate]_vars /\ WF_vars(Collaborators)

\* The store calls of checkDDoSProtection in the order of the code: the call a
\* request is waiting for, by its place in that order.
CallOrder(pc) ==
    CASE pc = "bl_query" -> 1
      [] pc = "log_block" -> 2
      [] pc = "q_minute" -> 2
      [] pc = "q_hour" -> 3
      [] pc = "q_day" -> 4
      [] pc = "q_ipmin" -> 5
      [] pc = "q_iphour" -> 6
      [] pc = "log_request" -> 7
      [] pc = "viol_insert" -> 7
      [] pc = "bl_insert" -> 8
      [] pc = "log_blacklisted" -> 9
      [] OTHER -> 10

InFlight(s) == calls[s].op = "admit" /\ calls[s].pc \notin {"idle", "done"}

\* C37: an admit() call whose store calls all return or throw returns in the
\* end, and every step of it moves on to a later store call of the code, so a
\* request waits for each call at most once: one blacklist read, five count
\* queries, one request_logs insert, at most four security_events and
\* ip_blacklist writes, and nothing is tried again.
C37_AdmitReturns ==
    /\ \A s \in Slots : InFlight(s) ~> AdmitDone(s)
    /\ [][\A s \in DOMAIN calls :
             InFlight(s) /\ calls'[s] # calls[s] =>
                 /\ calls'[s].op = "admit" /\ calls'[s].id = calls[s].id
                 /\ CallOrder(calls'[s].pc) > CallOrder(calls[s].pc)]_vars

\* A request has returned after its violation event, its ban row and its
\* ip_blacklisted event were written.
C37_ReturnedAfterBan ==
    \E s \in DOMAIN calls :
        /\ AdmitDone(s) /\ calls[s].result = "DENY" /\ ~calls[s].caught
        /\ Len(calls[s].wrote) = 2
        /\ ActiveBans(ip_blacklist, calls[s].id, now) # EmptyBag

----------------------------------------------------------------------------
(* Scan tracking: incrementScanCount and the redirect page *)

ScanVia == {"service", "page"}

ScanFree(b) == scans[b].pc \in {"idle", "done"}

\* A scan that ended in { error: null } or in the redirect.
Completed(result) == result \in {"ok", "redirected"}

\* (qrCode.scan_count || 0) + 1
Incremented(read) == read + 1

\* qrCodeService.ts 158-163 and QRRedirect.tsx 19-25: a browser scans the code,
\* through incrementScanCount or by opening /qr/<short code>, and the select of
\* the row is issued.
ScanBegin(b, q, via) ==
    /\ ScanFree(b)
    /\ scanned[q] < MaxScans
    /\ scans' = [scans EXCEPT ![b] =
           [IdleScan EXCEPT !.pc = "select", !.via = via, !.code = q]]
    /\ UNCHANGED <<now, sessionStorage, mem, store, calls, issued, ticks,
                   qr_codes, scanned, monitoring_metrics, dashboard, limiter>>

\* qrCodeService.ts 165-170 and QRRedirect.tsx 27-41: the select returns. A
\* failure ends the scan; the page also ends it for a code that is not active;
\* otherwise the update with the count read plus one is issued.
ScanSelected(b, out) ==
    /\ scans[b].pc = "select"
    /\ LET c == scans[b]
           row == qr_codes[c.code]
       IN  scans' = [scans EXCEPT ![b] =
               IF out # "ok" THEN [c EXCEPT !.pc = "done", !.result = "error"]
               ELSE IF c.via = "page" /\ ~row.is_active
               THEN [c EXCEPT !.pc = "done", !.result = "inactive"]
               ELSE [c EXCEPT !.pc = "update", !.read = row.scan_count]]
    /\ UNCHANGED <<now, sessionStorage, mem, store, calls, issued, ticks,
                   qr_codes, scanned, monitoring_metrics, dashboard, limiter>>

\* qrCodeService.ts 167-175 and QRRedirect.tsx 38-48: the update returns.
\* incrementScanCount returns its error, or the exception it caught; the page
\* looks at no result and redirects unless the update threw.
ScanUpdated(b, out) ==
    /\ scans[b].pc = "update"
    /\ LET c == scans[b]
           result == IF out = "throw" THEN "error"
                     ELSE IF c.via = "page" THEN "redirected"
                     ELSE IF out = "ok" THEN "ok" ELSE "error"
       IN  /\ qr_codes' = IF out = "ok"
                          THEN [qr_codes EXCEPT ![c.code].scan_count = Incremented(c.read)]
                          ELSE qr_codes
           /\ scans' = [scans EXCEPT ![b] = [c EXCEPT !.pc = "done", !.result = result]]
           /\ scanned' = IF Completed(result)
                         THEN [scanned EXCEPT ![c.code] = @ + 1]
                         ELSE scanned
    /\ UNCHANGED <<now, sessionStorage, mem, store, calls, issued, ticks,
                   monitoring_metrics, dashboard, limiter>>

\* qrCodeService.ts 178-193: the owner switches the code on or off.
UpdateQRStatus(q, isActive) ==
    /\ qr_codes[q].is_active # isActive
    /\ qr_codes' = [qr_codes EXCEPT ![q].is_active = isActive]
    /\ UNCHANGED <<now, sessionStorage, mem, store, calls, issued, ticks,
                   scans, scanned, monitoring_metrics, dashboard, limiter>>

Scan == \E b \in DOMAIN scans, q \in ShortCodes, via \in ScanVia : ScanBegin(b, q, via)
ScanSelect == \E b \in DOMAIN scans : ScanSelected(b, "ok")
ScanUpdate == \E b \in DOMAIN scans : ScanUpdated(b, "ok")
SetStatus == \E q \in ShortCodes, isActive \in BOOLEAN : UpdateQRStatus(q, isActive)

InitScan ==
    /\ now = 0
    /\ requestCache = [i \in Ids |-> <<>>]
    /\ blacklistCache = {}
    /\ violationCache = [i \in Ids |-> 0]
    /\ lastCleanup = 0
    /\ request_logs = EmptyBag
    /\ ip_blacklist = EmptyBag
    /\ calls = [s \in Slots |-> Idle]
    /\ issued = [i \in Ids |-> <<>>]
    /\ ticks = 0
    /\ sessionStorage = ""
    /\ ServicesIdle

\* Two browsers scanning one code, the store answering every call.
NextScan ==
    \/ Scan
    \/ ScanSelect
    \/ ScanUpdate
    \/ SetStatus

SpecScan == InitScan /\ [][NextScan]_vars

\* C38 as stated: whenever no scan is in flight, scan_count has gone up by one
\* for every scan that has completed, through incrementScanCount or through the
\* redirect page, in whatever order their store calls were answered.
C38_EveryScanCounted ==
    (\A b \in DOMAIN scans : ScanFree(b)) =>
        \A q \in ShortCodes : qr_codes[q].scan_count = scanned[q]

----------------------------------------------------------------------------
(* Monitoring: calculateMetricsSummary and checkAlerts *)

MetricIPs == {"ip1", "ip2"}

\* getRecentMetrics(minutes) as the dashboard may call it.
FetchMinutes == {1, 5, 60}

\* AlertThresholds the dashboard may be configured with.
Thresholds ==
    { [maxRequestsPerMinute |-> 2, maxSameIPRequestsPerMinute |-> 1],
      [maxRequestsPerMinute |-> 3, maxSameIPRequestsPerMinute |-> 2] }

MetricRow(ip, t) == [ip_address |-> ip, timestamp |-> t]

\* .gte('timestamp', startTime)
MetricsSince(table, start) ==
    LET hit == {r \in DOMAIN table : r.timestamp >= start}
    IN  [r \in hit |-> table[r]]

\* metrics.filter((m) => new Date(m.timestamp).getTime() > oneMinuteAgo)
LastMinuteMetrics(metrics, t) ==
    LET hit == {r \in DOMAIN metrics : r.timestamp > t - 60 * 1000}
    IN  [r \in hit |-> metrics[r]]

\* ipCounts[ip]: the rows of one address in a list of metrics
IPCount(metrics, ip) ==
    LET hit == {r \in DOMAIN metrics : r.ip_address = ip}
    IN  BagCardinality([r \in hit |-> metrics[r]])

\* Object.entries(ipCounts).sort((a, b) => b.count - a.count): the addresses of
\* the list by falling count.
RECURSIVE ByCount(_, _)
ByCount(metrics, ips) ==
    IF ips = {} THEN <<>>
    ELSE LET top == CHOOSE i \in ips :
                        \A j \in ips : IPCount(metrics, i) >= IPCount(metrics, j)
         IN  <<[ip |-> top, count |-> IPCount(metrics, top)]>>
                 \o ByCount(metrics, ips \ {top})

Slice(list, n) == IF Len(list) <= n THEN list ELSE SubSeq(list, 1, n)

\* topIPs of calculateMetricsSummary: counted over every metric it was given.
TopIPs(metrics) ==
    Slice(ByCount(metrics, {r.ip_address : r \in DOMAIN metrics}), 10)

\* calculateMetricsSummary(metrics) at clock reading t, the parts the alerts of
\* this model read.
calculateMetricsSummary(metrics, t) ==
    [requestsPerMinute |-> BagCardinality(LastMinuteMetrics(metrics, t)),
     topIPs |-> TopIPs(metrics)]

\* checkAlerts(summary, thresholds): the request-rate alert and the same-IP
\* alert.
checkAlerts(summary, thresholds) ==
    (IF summary.requestsPerMinute > thresholds.maxRequestsPerMinute
     THEN {"request-rate"} ELSE {})
    \cup
    (IF \E k \in DOMAIN summary.topIPs :
           summary.topIPs[k].count > thresholds.maxSameIPRequestsPerMinute
     THEN {"same-ip"} ELSE {})

\* logMonitoringMetric: a request of one address is written with the time of
\* the insert.
LogMonitoringMetric(ip) ==
    /\ Room(monitoring_metrics, MaxMetrics)
    /\ monitoring_metrics' = Insert(monitoring_metrics, MetricRow(ip, now))
    /\ UNCHANGED <<now, sessionStorage, mem, store, calls, issued, ticks,
                   qr_codes, scans, scanned, dashboard, limiter>>

\* The dashboard refreshes: getRecentMetrics(minutes), calculateMetricsSummary,
\* checkAlerts.
Refresh(minutes, thresholds) ==
    /\ LET metrics == MetricsSince(monitoring_metrics, now - minutes * 60 * 1000)
           summary == calculateMetricsSummary(metrics, now)
       IN  dashboard' = [requestsPerMinute |-> summary.requestsPerMinute,
                         topIPs |-> summary.topIPs,
                         alerts |-> checkAlerts(summary, thresholds),
                         maxSameIP |-> thresholds.maxSameIPRequestsPerMinute,
                         at |-> now]
    /\ UNCHANGED <<now, sessionStorage, mem, store, calls, issued, ticks,
                   qr_codes, scans, scanned, monitoring_metrics, limiter>>

LogMetric == \E ip \in MetricIPs : LogMonitoringMetric(ip)
RefreshDashboard == \E minutes \in FetchMinutes, thresholds \in Thresholds :
    Refresh(minutes, thresholds)

NextMonitor ==
    \/ LogMetric
    \/ RefreshDashboard
    \/ Clock

SpecMonitor == InitScan /\ [][NextMonitor]_vars

\* The requests of one address not older than one minute at clock reading t.
WithinLastMinute(table, ip, t) == IPCount(MetricsSince(table, t - 60 * 1000), ip)

\* C39 as stated: a refresh of the dashboard shows the same-IP alert exactly
\* when some address has made more requests than maxSameIPRequestsPerMinute in
\* the minute before it; a request older than one minute does not count.
C39_SameIPAlertLastMinute ==
    [][dashboard' # dashboard =>
          ("same-ip" \in dashboard'.alerts <=>
              \E ip \in MetricIPs :
                  WithinLastMinute(monitoring_metrics, ip, now) > dashboard'.maxSameIP)]_vars

----------------------------------------------------------------------------
(* The standalone rate limiter: checkRateLimit of lib/supabase.ts *)

LimiterEndpoints == Endpoints \cup {OtherEndpoint}

\* RateLimitConfig: the default, and two small ones.
LimiterConfigs ==
    { [maxRequests |-> 10, windowMs |-> 60 * 60 * 1000],
      [maxRequests |-> 2, windowMs |-> 60 * 1000],
      [maxRequests |-> 1, windowMs |-> 60 * 60 * 1000] }

\* What earlier requests, of this identity and of another, have left in
\* request_logs.
LimiterStores ==
    { EmptyBag,
      Insert(EmptyBag, LogRow("a", "/api/create-qr", 0)),
      Twice(LogRow("a", "/api/create-qr", 0)),
      Twice(LogRow("a", OtherEndpoint, 0)),
      Twice(LogRow(OtherId, "/api/create-qr", 0)) }

InitLimiter ==
    /\ now = 0
    /\ requestCache = [i \in Ids |-> <<>>]
    /\ blacklistCache = {}
    /\ violationCache = [i \in Ids |-> 0]
    /\ lastCleanup = 0
    /\ request_logs \in LimiterStores
    /\ ip_blacklist = EmptyBag
    /\ calls = [s \in Slots |-> Idle]
    /\ issued = [i \in Ids |-> <<>>]
    /\ ticks = 0
    /\ sessionStorage = ""
    /\ ServicesIdle

\* .eq('ip_address', ip).eq('endpoint', endpoint).gte('timestamp', windowStart)
\* with { count: 'exact' }
EndpointCount(table, ip, endpoint, since) ==
    LET hit == {r \in DOMAIN table :
                   r.ip_address = ip /\ r.endpoint = endpoint /\ r.timestamp >= since}
    IN  BagCardinality([r \in hit |-> table[r]])

\* A catch block that throws on whatever it caught.
LimiterCatchRethrows(thrown) == thrown

\* Lines 188-195: the catch block of checkRateLimit throws an error that carries
\* rateLimitInfo on to the caller and swallows any other.
LimiterCatch(thrown) == IF thrown = "RateLimitError" THEN "RateLimitError" ELSE "returned"

\* Lines 142-151: checkRateLimit(endpoint, config) is called and awaits
\* getClientIp().
CheckRateLimit(endpoint, config) ==
    /\ limiter.pc \in {"idle", "done"}
    /\ limiter' = [IdleLimiter EXCEPT !.pc = "ip", !.endpoint = endpoint,
                                      !.maxRequests = config.maxRequests,
                                      !.windowMs = config.windowMs]
    /\ UNCHANGED <<now, sessionStorage, mem, store, calls, issued, ticks,
                   qr_codes, scans, scanned, monitoring_metrics, dashboard>>

\* Lines 151-162 and 250-272: getClientIp() returns an identifier, or throws out
\* of its own catch block; with an identifier the window start is computed and
\* the count query is issued.
LimiterIdentified(out, ip) ==
    /\ limiter.pc = "ip"
    /\ limiter' = IF out = "ok"
                  THEN [limiter EXCEPT !.pc = "count", !.ipAddress = ip,
                                       !.windowStart = now - limiter.windowMs]
                  ELSE [limiter EXCEPT !.pc = "done", !.result = LimiterCatch("Error")]
    /\ UNCHANGED <<now, sessionStorage, mem, store, calls, issued, ticks,
                   qr_codes, scans, scanned, monitoring_metrics, dashboard>>

\* Lines 164-195: the count query returns. An error result is logged and the
\* call returns; at the limit an error with rateLimitInfo is thrown, and thrown
\* again by the catch block; a rejected query is swallowed there.
LimiterCounted(out) ==
    /\ limiter.pc = "count"
    /\ LET count == IF out = "ok"
                    THEN EndpointCount(request_logs, limiter.ipAddress,
                                       limiter.endpoint, limiter.windowStart)
                    ELSE 0
           result == IF out = "throw" THEN LimiterCatch("Error")
                     ELSE IF out = "error" THEN "returned"
                     ELSE IF count >= limiter.maxRequests
                     THEN LimiterCatch("RateLimitError")
                     ELSE "returned"
       IN  limiter' = [limiter EXCEPT !.pc = "done", !.answered = out,
                                      !.count = count, !.result = result]
    /\ UNCHANGED <<now, sessionStorage, mem, store, calls, issued, ticks,
                   qr_codes, scans, scanned, monitoring_metrics, dashboard>>

LimiterCall ==
    \E endpoint \in LimiterEndpoints, config \in LimiterConfigs :
        CheckRateLimit(endpoint, config)
LimiterIdentity == \E out \in {"ok", "throw"}, ip \in Ids : LimiterIdentified(out, ip)
LimiterCount == \E out \in Outcomes : LimiterCounted(out)

NextLimiter ==
    \/ LimiterCall
    \/ LimiterIdentity
    \/ LimiterCount
    \/ Clock

SpecLimiter == InitLimiter /\ [][NextLimiter]_vars

\* C40: checkRateLimit throws the error that carries rateLimitInfo exactly when
\* its count query succeeded and the rows of the identity for the endpoint
\* since the window start are at least maxRequests; when getClientIp or the
\* query fails it returns normally, and no other error leaves it.
C40_ThrowsOnlyAtLimit ==
    [][limiter.pc # "done" /\ limiter'.pc = "done" =>
          /\ limiter'.result \in {"returned", "RateLimitError"}
          /\ limiter'.result = "RateLimitError" <=>
                /\ limiter.pc = "count"
                /\ limiter'.answered = "ok"
                /\ EndpointCount(request_logs, limiter.ipAddress, limiter.endpoint,
                                 limiter.windowStart) >= limiter.maxRequests]_vars

\* A call was refused with exactly maxRequests rows in its window.
C40_RefusedAtLimit ==
    /\ limiter.pc = "done" /\ limiter.result = "RateLimitError"
    /\ limiter.count = limiter.maxRequests
    /\ limiter.count > 0

====
